---- MODULE Spec2Model ----
(***************************************************************************)
(* Model of go-nixplay's generic entity cache (internal/cache/cache.go)    *)
(* and of the container / photo facades that drive it.                     *)
(*                                                                         *)
(* Spec           drives one Cache[T] directly through its public methods  *)
(*                against a page source.                                   *)
(* ContainerSpec  drives one container (AddPhoto, Photos, PhotoCount,      *)
(*                ResetCache, photo Delete, container Delete) whose photo  *)
(*                cache is that same Cache[T].                             *)
(* UploadSpec     follows concurrent AddPhoto calls on one container step  *)
(*                by step (upload.go), with cancellation of their context  *)
(*                and with Photos walks in between.                        *)
(* PhotoSpec      applies the hash and ID functions (MD5Hash.UnmarshalText,*)
(*                md5HashFromPhotoURL, newPhoto, newContainer) to inputs   *)
(*                drawn at the start.                                      *)
(* LockSpec       follows the goroutines that call into one container and  *)
(*                its photo objects from Lock to Lock of Cache.mu and      *)
(*                photo.mu.                                                *)
(* NameErrSpec    is Spec with elements whose Name and GenerateUniqueName  *)
(*                may fail while a lookup builds the name indexes.         *)
(* MutexSpec      follows the goroutines that call the public methods of   *)
(*                one Cache[T] from c.mu.Lock to the deferred Unlock, and  *)
(*                through ElementDeleted and AddDeletedListener.           *)
(***************************************************************************)
EXTENDS Integers, Sequences, FiniteSets, TLC

\* ------------------------------------------------------------------ bounds
MaxID == 3
PageLen == 2

IDs == 1..MaxID

\* ---------------------------------------------------------------- elements
\* An element object: its ID and whether it was built from a listing
\* (nixplayID and url known) or by AddPhoto / CreateContainer (not known).
Element == [id : IDs, listed : BOOLEAN]

\* "var empty T": the zero value a lookup returns on a miss, as a result list
Empty == <<>>

\* Element.Name: the names the entities carry.  IDs 1 and 2 share a name,
\* ID 3 is named like the disambiguated name of ID 1.
Name(e) ==
    CASE e.id = 1 -> <<"a">>
      [] e.id = 2 -> <<"a">>
      [] e.id = 3 -> <<"a", 1>>
      [] OTHER    -> <<"b">>

\* ElementUniqueNameGenerator.GenerateUniqueName: the name with a
\* disambiguator derived from the ID appended.
GenerateUniqueName(e) == Append(Name(e), e.id)

\* ------------------------------------------------------------------- maps
\* A Go map that may be nil: nil is TRUE for the nil map, m holds the entries.
EmptyMap == [k \in {} |-> <<>>]
NilMap == [nil |-> TRUE, m |-> EmptyMap]
MakeMap == [nil |-> FALSE, m |-> EmptyMap]

MapPut(m, k, v) == [x \in (DOMAIN m) \cup {k} |-> IF x = k THEN v ELSE m[x]]
MapDelete(m, k) == [x \in (DOMAIN m) \ {k} |-> m[x]]
\* m[k] for a map of slices: a missing key reads as the nil slice
MapGetSlice(m, k) == IF k \in DOMAIN m THEN m[k] ELSE <<>>
\* m[k] for a map of elements: a missing key reads as the zero value
MapGetElem(m, k) == IF k \in DOMAIN m THEN <<m[k]>> ELSE Empty

\* ------------------------------------------------------------ slice helpers
\* index of the first entry of s whose ID is id, 0 when there is none
RECURSIVE IndexOfID(_, _, _)
IndexOfID(s, id, i) ==
    IF i > Len(s) THEN 0
    ELSE IF s[i].id = id THEN i
    ELSE IndexOfID(s, id, i + 1)

\* s[i] = s[len(s)-1]; s = s[:len(s)-1]
SwapRemove(s, i) ==
    [j \in 1..(Len(s) - 1) |-> IF j = i THEN s[Len(s)] ELSE s[j]]

IDsOf(s) == {s[i].id : i \in 1..Len(s)}

Range(s) == {s[i] : i \in 1..Len(s)}

\* all orders in which the keys of a map can be ranged over
PermSeqs(S) ==
    {q \in [1..Cardinality(S) -> S] : \A i, j \in 1..Cardinality(S) : q[i] = q[j] => i = j}

\* ------------------------------------------------------------ page sources
\* the first n entities as a listing delivers them
Listing(n) == [i \in 1..n |-> [id |-> i, listed |-> TRUE]]

\* the listing l cut into pages of PageLen elements
RECURSIVE Paginate(_)
Paginate(l) ==
    IF Len(l) = 0 THEN <<>>
    ELSE IF Len(l) <= PageLen THEN <<l>>
    ELSE <<SubSeq(l, 1, PageLen)>> \o Paginate(SubSeq(l, PageLen + 1, Len(l)))

\* every element of the listing delivered twice in a row
RECURSIVE Twice(_)
Twice(l) == IF Len(l) = 0 THEN <<>> ELSE <<l[1], l[1]>> \o Twice(Tail(l))

\* A page source: pages 0..Len-1, every later page is empty.  The sources are
\* the packed paginations of the listings, the same with an empty page after
\* the first one, the paginations of listings that repeat every element, and
\* the paginations of listings delivered a second time on later pages.
PageSources ==
    {Paginate(Listing(n)) : n \in 0..MaxID}
    \cup {<<SubSeq(Listing(n), 1, 1), <<>>>> \o Paginate(SubSeq(Listing(n), 2, n)) : n \in 2..MaxID}
    \cup {Paginate(Twice(Listing(n))) : n \in 1..MaxID}
    \cup {Paginate(Listing(n) \o Listing(n)) : n \in 2..MaxID}

VARIABLES
    pages,                \* the page source behind elementPageFunc
    foundAll,             \* Cache.foundAll
    elements,             \* Cache.elements
    nameToElements,       \* Cache.nameToElements
    uniqueNameToElement,  \* Cache.uniqueNameToElement
    idToElement,          \* Cache.idToElement
    op,                   \* the operation that returned last
    err,                  \* whether it returned an error
    requested,            \* the pages it requested, in order
    result,               \* the elements it returned
    shares,               \* the slice of the cache whose backing array the list
                          \* it returned shares: "none", "elements" or "name"
    lastAll,              \* history: the answer of the last successful All that no
                          \* Add, Remove or Reset has followed, and how many
                          \* such All calls there were in a row (0, 1, 2 = more)
    resetFrom,            \* history: "loaded" / "unloaded" while the last operation
                          \* is a Reset of such a cache or the All right after it
    containerType,        \* container.containerType
    photoCount,           \* container.photoCount
    held,                 \* the photo objects a caller holds: [id, listed, reg]
    containerLive,        \* the container exists remotely
    containerCached,      \* the cache that indexes the container still holds it
    target,               \* the content the last AddPhoto uploaded or whose photo the last Delete was called on
    remoteDelete,         \* "none" / "ok" / "failed": the remote delete of the last call
    notified,             \* the listeners the last call notified
    hyp,                  \* history: only successful calls with pairwise different
                          \* uploaded content so far
    calls,                \* the AddPhoto calls in progress, step by step
    walk,                 \* the context of the caller of the last Photos walk
    pure,                 \* the inputs of the hash and ID functions, and what
                          \* the functions applied so far returned
    cacheMu,              \* the goroutine that holds Cache.mu, or NoThread
    photoMu,              \* for each photo object, the goroutine that holds photo.mu
    threads,              \* the goroutines: the call each is in and its position
    objects,              \* the photo objects made for the remote photo
    photoCache,           \* the photo cache of the container, for that photo
    remote,               \* the remote container lists the photo
    elementDeletedListener \* Cache.elementDeletedListener: the listeners the
                          \* goroutines of MutexSpec have added

cacheVars == <<foundAll, elements, nameToElements, uniqueNameToElement, idToElement>>
callVars == <<op, err, requested, result, shares>>
histVars == <<lastAll, resetFrom>>
uploadVars == <<calls, walk>>
lockVars == <<cacheMu, photoMu, threads, objects, photoCache, remote>>
sideVars == <<pure, lockVars, elementDeletedListener>>
containerVars == <<containerType, photoCount, held, containerLive, containerCached,
                   target, remoteDelete, notified, hyp, uploadVars, sideVars>>
vars == <<pages, foundAll, elements, nameToElements, uniqueNameToElement, idToElement,
          op, err, requested, result, shares, lastAll, resetFrom,
          containerType, photoCount, held, containerLive, containerCached,
          target, remoteDelete, notified, hyp, calls, walk, pure,
          cacheMu, photoMu, threads, objects, photoCache, remote,
          elementDeletedListener>>

\* the cache as one value
Cache ==
    [foundAll |-> foundAll, elements |-> elements, nameToElements |-> nameToElements,
     uniqueNameToElement |-> uniqueNameToElement, idToElement |-> idToElement]

NewCache ==
    [foundAll |-> FALSE, elements |-> <<>>, nameToElements |-> NilMap,
     uniqueNameToElement |-> NilMap, idToElement |-> EmptyMap]

SetCache(c) ==
    /\ foundAll' = c.foundAll
    /\ elements' = c.elements
    /\ nameToElements' = c.nameToElements
    /\ uniqueNameToElement' = c.uniqueNameToElement
    /\ idToElement' = c.idToElement

\* elementPageFunc(ctx, page)
elementPageFunc(src, page) == IF page + 1 <= Len(src) THEN src[page + 1] ELSE <<>>

\* no page request fails
NoFail == 0 - 1

\* Cache.addElementUnsafe without the check for an ID already cached
addElementUnsafeNoCheck(c, p) ==
    [c EXCEPT !.elements = Append(@, p),
              !.idToElement = MapPut(@, p.id, p),
              !.nameToElements = NilMap,
              !.uniqueNameToElement = NilMap]

\* Cache.addElementUnsafe putting the new object in the place of the cached one
addElementUnsafeOverwrites(c, p) ==
    IF p.id \in DOMAIN c.idToElement
    THEN [c EXCEPT !.idToElement = MapPut(@, p.id, p)]
    ELSE [c EXCEPT !.elements = Append(@, p),
                   !.idToElement = MapPut(@, p.id, p),
                   !.nameToElements = NilMap,
                   !.uniqueNameToElement = NilMap]

\* ------------------------------------------------------- cache internals
\* Cache.addElementUnsafe
addElementUnsafe(c, p) ==
    IF p.id \in DOMAIN c.idToElement
    THEN c
    ELSE [c EXCEPT !.elements = Append(@, p),
                   !.idToElement = MapPut(@, p.id, p),
                   !.nameToElements = NilMap,
                   !.uniqueNameToElement = NilMap]

\* the loop over a page's elements appending each without looking at its ID
addElementsUnsafeAppendsAll(c, els, i) ==
    [c EXCEPT !.elements = @ \o SubSeq(els, i, Len(els)),
              !.idToElement = [x \in (DOMAIN c.idToElement) \cup IDsOf(els) |->
                                  IF x \in IDsOf(els)
                                  THEN els[CHOOSE k \in 1..Len(els) : els[k].id = x]
                                  ELSE c.idToElement[x]],
              !.nameToElements = IF Len(els) = 0 THEN @ ELSE NilMap,
              !.uniqueNameToElement = IF Len(els) = 0 THEN @ ELSE NilMap]

\* "for _, p := range elements { c.addElementUnsafe(p) }"
RECURSIVE addElementsUnsafe(_, _, _)
addElementsUnsafe(c, els, i) ==
    IF i > Len(els) THEN c
    ELSE addElementsUnsafe(addElementUnsafe(c, els[i]), els, i + 1)

\* Cache.loadAllUnsafe from page `page` on; the request for page failAt fails.
\* Returns the cache, the pages requested and whether an error is returned.
RECURSIVE loadAllFrom(_, _, _, _, _)
loadAllFrom(c, src, page, failAt, reqs) ==
    IF c.foundAll
    THEN [c |-> c, requested |-> reqs, err |-> FALSE]
    ELSE IF page = failAt
    THEN [c |-> c, requested |-> Append(reqs, page), err |-> TRUE]
    ELSE LET els == elementPageFunc(src, page)
             c1 == IF Len(els) = 0 THEN [c EXCEPT !.foundAll = TRUE] ELSE c
             c2 == addElementsUnsafe(c1, els, 1)
         IN loadAllFrom(c2, src, page + 1, failAt, Append(reqs, page))

\* a walk that starts at page 1
loadAllUnsafeFromOne(c, src, failAt) == loadAllFrom(c, src, 1, failAt, <<>>)

\* a walk that on an error leaves the cache as it found it
loadAllUnsafeRollsBack(c, src, failAt) ==
    IF loadAllFrom(c, src, 0, failAt, <<>>).err
    THEN [loadAllFrom(c, src, 0, failAt, <<>>) EXCEPT !.c = c]
    ELSE loadAllFrom(c, src, 0, failAt, <<>>)

\* Cache.loadAllUnsafe
loadAllUnsafe(c, src, failAt) == loadAllFrom(c, src, 0, failAt, <<>>)

\* the loop of populateNameMapUnsafe over c.elements[i..]
RECURSIVE appendByName(_, _, _)
appendByName(m, els, i) ==
    IF i > Len(els) THEN m
    ELSE LET name == Name(els[i])
         IN appendByName(MapPut(m, name, Append(MapGetSlice(m, name), els[i])), els, i + 1)

\* Cache.populateNameMapUnsafe
populateNameMapUnsafe(c) ==
    IF ~c.nameToElements.nil
    THEN c
    ELSE [c EXCEPT !.nameToElements = [nil |-> FALSE, m |-> appendByName(EmptyMap, c.elements, 1)]]

\* populateUniqueNameMapUnsafe, the inner loop over one colliding name group:
\* st = [m, err]
RECURSIVE generateGroup(_, _, _)
generateGroup(st, els, i) ==
    IF st.err \/ i > Len(els) THEN st
    ELSE LET uName == GenerateUniqueName(els[i])
         IN IF uName \in DOMAIN st.m
            THEN [st EXCEPT !.err = TRUE]
            ELSE generateGroup([st EXCEPT !.m = MapPut(@, uName, els[i])], els, i + 1)

\* populateUniqueNameMapUnsafe, the range over nameToElements in the order
\* `order` the runtime happens to pick
RECURSIVE rangeNames(_, _, _, _)
rangeNames(st, byName, order, i) ==
    IF st.err \/ i > Len(order) THEN st
    ELSE LET name == order[i]
             els == byName[name]
             st1 == IF Len(els) = 1
                    THEN [st EXCEPT !.m = MapPut(@, name, els[1])]
                    ELSE generateGroup(st, els, 1)
         IN rangeNames(st1, byName, order, i + 1)

\* Cache.populateUniqueNameMapUnsafe.  Returns the cache and the error flag.
populateUniqueNameMapUnsafe(c, order) ==
    IF ~c.uniqueNameToElement.nil
    THEN [c |-> c, err |-> FALSE]
    ELSE LET st == rangeNames([m |-> EmptyMap, err |-> FALSE], c.nameToElements.m, order, 1)
         IN IF st.err
            THEN [c |-> [c EXCEPT !.uniqueNameToElement = NilMap], err |-> TRUE]
            ELSE [c |-> [c EXCEPT !.uniqueNameToElement = [nil |-> FALSE, m |-> st.m],
                                  !.nameToElements.m = appendByName(@, c.elements, 1)],
                  err |-> FALSE]

\* A call of Name or GenerateUniqueName that fails while an index is built:
\* the loop it is made in and, for Name, the element it is made for.
NoNameFail == [in |-> "none", at |-> 0]

\* Cache.populateNameMapUnsafe when a call of Name may fail: the map built so
\* far is dropped by the deferred function
populateNameMapUnsafeErr(c, nf) ==
    IF ~c.nameToElements.nil
    THEN [c |-> c, err |-> FALSE]
    ELSE IF nf.in = "populateNameMapUnsafe" /\ nf.at \in 1..Len(c.elements)
    THEN [c |-> [c EXCEPT !.nameToElements = NilMap], err |-> TRUE]
    ELSE [c |-> populateNameMapUnsafe(c), err |-> FALSE]

\* a name is shared, so that populateUniqueNameMapUnsafe calls GenerateUniqueName
CallsGenerate(c) == \E n \in DOMAIN c.nameToElements.m : Len(c.nameToElements.m[n]) # 1

\* populateUniqueNameMapUnsafe when the Name of element nf.at fails in its last
\* loop, after the range over the names answered u: the deferred function drops
\* the unique-name map, the names appended so far stay
populateUniqueFailsAtName(c, u, nf) ==
    IF u.err \/ nf.in # "lastLoop" \/ nf.at \notin 1..Len(c.elements)
    THEN u
    ELSE [c |-> [c EXCEPT !.uniqueNameToElement = NilMap,
                          !.nameToElements.m = appendByName(@, SubSeq(c.elements, 1, nf.at - 1), 1)],
          err |-> TRUE]

\* Cache.populateUniqueNameMapUnsafe when a call of GenerateUniqueName (the
\* first one made) or of Name may fail
populateUniqueNameMapUnsafeErr(c, order, nf) ==
    IF ~c.uniqueNameToElement.nil
    THEN [c |-> c, err |-> FALSE]
    ELSE IF nf.in = "GenerateUniqueName" /\ CallsGenerate(c)
    THEN [c |-> [c EXCEPT !.uniqueNameToElement = NilMap], err |-> TRUE]
    ELSE populateUniqueFailsAtName(c, populateUniqueNameMapUnsafe(c, order), nf)

\* a reset that leaves foundAll as it is
resetUnsafeKeepsFoundAll(c) ==
    [c EXCEPT !.elements = <<>>,
              !.nameToElements = NilMap,
              !.uniqueNameToElement = NilMap,
              !.idToElement = EmptyMap]

\* Cache.resetUnsafe
resetUnsafe(c) ==
    [c EXCEPT !.foundAll = FALSE,
              !.elements = <<>>,
              !.nameToElements = NilMap,
              !.uniqueNameToElement = NilMap,
              !.idToElement = EmptyMap]

\* Remove, the update of nameToElements for the cached copy's name
removeFromNameMap(byName, cachedPhoto, id) ==
    LET name == Name(cachedPhoto)
        s == MapGetSlice(byName, name)
        i == IndexOfID(s, id, 1)
    IN IF i = 0 THEN byName
       ELSE IF Len(s) = 1 THEN MapDelete(byName, name)
       ELSE MapPut(byName, name, SwapRemove(s, i))

\* a Remove that takes the element out of the list and the name index but
\* leaves its entry in idToElement
cacheRemoveKeepsID(c, e) ==
    IF e.id \notin DOMAIN c.idToElement
    THEN c
    ELSE [c EXCEPT !.elements = IF IndexOfID(@, e.id, 1) = 0 THEN @
                                ELSE SwapRemove(@, IndexOfID(@, e.id, 1)),
                   !.nameToElements = IF @.nil THEN @
                                      ELSE [@ EXCEPT !.m = removeFromNameMap(@, c.idToElement[e.id], e.id)],
                   !.uniqueNameToElement = NilMap]

\* Cache.Remove when reading the cached copy's Name does not fail
cacheRemove(c, e) ==
    IF e.id \notin DOMAIN c.idToElement
    THEN c
    ELSE LET cachedPhoto == c.idToElement[e.id]
             i == IndexOfID(c.elements, e.id, 1)
             els == IF i = 0 THEN c.elements ELSE SwapRemove(c.elements, i)
             byName == IF c.nameToElements.nil
                       THEN c.nameToElements
                       ELSE [c.nameToElements EXCEPT !.m = removeFromNameMap(@, cachedPhoto, e.id)]
         IN [c EXCEPT !.elements = els,
                      !.nameToElements = byName,
                      !.uniqueNameToElement = NilMap,
                      !.idToElement = MapDelete(@, e.id)]

\* a Remove that returns the error of the cached copy's Name and leaves the
\* cache as the error found it: the element gone from the list only
cacheRemoveErrNoReset(c, e, nameErr) ==
    IF e.id \in DOMAIN c.idToElement /\ ~c.nameToElements.nil /\ nameErr
    THEN [c |-> [c EXCEPT !.elements = IF IndexOfID(@, e.id, 1) = 0 THEN @
                                       ELSE SwapRemove(@, IndexOfID(@, e.id, 1))],
          err |-> TRUE]
    ELSE [c |-> cacheRemove(c, e), err |-> FALSE]

\* Cache.Remove; nameErr: reading the cached copy's Name fails.  The name is
\* read only of a cached element and only when the name index is built; the
\* deferred function resets the cache when an error is returned.
cacheRemoveErr(c, e, nameErr) ==
    IF e.id \in DOMAIN c.idToElement /\ ~c.nameToElements.nil /\ nameErr
    THEN [c |-> resetUnsafe(c), err |-> TRUE]
    ELSE [c |-> cacheRemove(c, e), err |-> FALSE]

\* Cache.Add marking the cache as complete
cacheAddMarksLoaded(c, e) == [addElementUnsafe(c, e) EXCEPT !.foundAll = TRUE]

\* Cache.Add
cacheAdd(c, e) == addElementUnsafe(c, e)

\* ------------------------------------------------------ cache operations
\* Each returns [c, err, requested, result] as the method leaves the cache and
\* answers its caller.
\* an All that walks the pages again on every call
cacheAllReloads(c, src, failAt) ==
    LET l == loadAllUnsafe([c EXCEPT !.foundAll = FALSE], src, failAt)
    IN [c |-> l.c, err |-> l.err, requested |-> l.requested,
        result |-> IF l.err THEN <<>> ELSE l.c.elements]

\* the list an operation returned shares no backing array with the cache
NoShare == "none"

\* Cache.All returning c.elements itself
cacheAllReturnsSlice(c, src, failAt) ==
    LET l == loadAllUnsafe(c, src, failAt)
    IN [c |-> l.c, err |-> l.err, requested |-> l.requested,
        result |-> IF l.err THEN <<>> ELSE l.c.elements,
        shared |-> IF l.err THEN NoShare ELSE "elements"]

\* Cache.All; the list returned is made anew and c.elements copied into it
cacheAll(c, src, failAt) ==
    LET l == loadAllUnsafe(c, src, failAt)
    IN [c |-> l.c, err |-> l.err, requested |-> l.requested,
        result |-> IF l.err THEN <<>> ELSE l.c.elements,
        shared |-> NoShare]

\* Cache.ElementsWithName; the list returned is made anew and the slice of
\* the name copied into it
cacheElementsWithName(c, src, failAt, name) ==
    LET l == loadAllUnsafe(c, src, failAt)
        c1 == populateNameMapUnsafe(l.c)
    IN IF l.err
       THEN [c |-> l.c, err |-> TRUE, requested |-> l.requested, result |-> <<>>,
             shared |-> NoShare]
       ELSE [c |-> c1, err |-> FALSE, requested |-> l.requested,
             result |-> MapGetSlice(c1.nameToElements.m, name),
             shared |-> NoShare]

\* the orders in which ElementWithUniqueName may range over the name index
RangeOrders(c, src, failAt) ==
    LET l == loadAllUnsafe(c, src, failAt)
        c1 == populateNameMapUnsafe(l.c)
    IN IF l.err \/ ~c1.uniqueNameToElement.nil THEN {<<>>}
       ELSE PermSeqs(DOMAIN c1.nameToElements.m)

\* Cache.ElementWithUniqueName
cacheElementWithUniqueName(c, src, failAt, name, order) ==
    LET l == loadAllUnsafe(c, src, failAt)
        c1 == populateNameMapUnsafe(l.c)
        u == populateUniqueNameMapUnsafe(c1, order)
    IN IF l.err
       THEN [c |-> l.c, err |-> TRUE, requested |-> l.requested, result |-> Empty]
       ELSE IF u.err
       THEN [c |-> u.c, err |-> TRUE, requested |-> l.requested, result |-> Empty]
       ELSE [c |-> u.c, err |-> FALSE, requested |-> l.requested,
             result |-> MapGetElem(u.c.uniqueNameToElement.m, name)]

\* an ElementWithID that answers from whatever the cache holds
cacheElementWithIDNoWalk(c, src, failAt, id) ==
    [c |-> c, err |-> FALSE, requested |-> <<>>, result |-> MapGetElem(c.idToElement, id)]

\* Cache.ElementWithID
cacheElementWithID(c, src, failAt, id) ==
    LET l == loadAllUnsafe(c, src, failAt)
    IN [c |-> l.c, err |-> l.err, requested |-> l.requested,
        result |-> IF l.err THEN Empty ELSE MapGetElem(l.c.idToElement, id)]

\* Cache.ElementsWithName when a call of Name may fail, after the walk answered
\* l and populateNameMapUnsafe answered n
elementsWithNameAfter(l, n, name) ==
    IF l.err
    THEN [c |-> l.c, err |-> TRUE, requested |-> l.requested, result |-> <<>>,
          shared |-> NoShare]
    ELSE [c |-> n.c, err |-> n.err, requested |-> l.requested,
          result |-> IF n.err THEN <<>> ELSE MapGetSlice(n.c.nameToElements.m, name),
          shared |-> NoShare]

\* Cache.ElementsWithName when a call of Name may fail
cacheElementsWithNameErr(c, src, failAt, name, nf) ==
    elementsWithNameAfter(loadAllUnsafe(c, src, failAt),
                          populateNameMapUnsafeErr(loadAllUnsafe(c, src, failAt).c, nf), name)

\* Cache.ElementWithUniqueName, after the walk answered l and
\* populateUniqueNameMapUnsafe answered u
uniqueNameAnswer(l, u, name) ==
    [c |-> u.c, err |-> u.err, requested |-> l.requested,
     result |-> IF u.err THEN Empty ELSE MapGetElem(u.c.uniqueNameToElement.m, name)]

\* Cache.ElementWithUniqueName when a call of Name or GenerateUniqueName may
\* fail, after the walk answered l and populateNameMapUnsafe answered n
elementWithUniqueNameAfter(l, n, name, order, nf) ==
    IF l.err \/ n.err
    THEN [c |-> IF l.err THEN l.c ELSE n.c, err |-> TRUE, requested |-> l.requested,
          result |-> Empty]
    ELSE uniqueNameAnswer(l, populateUniqueNameMapUnsafeErr(n.c, order, nf), name)

\* Cache.ElementWithUniqueName when a call of Name or GenerateUniqueName may fail
cacheElementWithUniqueNameErr(c, src, failAt, name, order, nf) ==
    elementWithUniqueNameAfter(loadAllUnsafe(c, src, failAt),
                               populateNameMapUnsafeErr(loadAllUnsafe(c, src, failAt).c, nf),
                               name, order, nf)

\* the calls of Name that a lookup on cache c may see fail once its walk has
\* succeeded: those of populateNameMapUnsafe, made when the name index is nil
NameFails(c) ==
    {NoNameFail} \cup
    (IF c.nameToElements.nil
     THEN {[in |-> "populateNameMapUnsafe", at |-> k] : k \in 1..Len(c.elements)}
     ELSE {})

\* the calls that ElementWithUniqueName may see fail in addition, made when the
\* unique-name index is nil
UniqueNameFails(c) ==
    NameFails(c) \cup
    (IF c.uniqueNameToElement.nil
     THEN {[in |-> "GenerateUniqueName", at |-> 0]}
          \cup {[in |-> "lastLoop", at |-> k] : k \in 1..Len(c.elements)}
     ELSE {})

\* the failing calls offered to a lookup whose page request failAt fails: none
\* when the walk itself fails
AfterWalk(failAt, fails) == IF failAt = NoFail THEN fails ELSE {NoNameFail}

\* the names a caller asks for
Names == {Name(e) : e \in Element} \cup {GenerateUniqueName(e) : e \in Element}

\* the page requests a call may see fail; none is made once foundAll is set
FailAts == IF foundAll THEN {NoFail} ELSE {NoFail} \cup (0..Len(pages))

\* the backing array the list of an answer shares; only All and
\* ElementsWithName return lists
Sharing(r) == IF "shared" \in DOMAIN r THEN r.shared ELSE NoShare

\* what the caller of the last operation saw
Return(o, r) ==
    /\ op' = o
    /\ err' = r.err
    /\ requested' = r.requested
    /\ result' = r.result
    /\ shares' = Sharing(r)

NoAnswer == [err |-> FALSE, requested |-> <<>>, result |-> <<>>]

NoLastAll == [n |-> 0, result |-> <<>>]

\* the history variables after operation o answered r
History(o, r) ==
    /\ lastAll' = CASE o = "All" /\ ~r.err -> [n |-> IF lastAll.n = 0 THEN 1 ELSE 2, result |-> r.result]
                    [] o \in {"Add", "Remove", "Reset"} -> NoLastAll
                    [] OTHER -> lastAll
    /\ resetFrom' = CASE o = "Reset" -> IF foundAll THEN "loaded" ELSE "unloaded"
                      [] o = "All" /\ op = "Reset" -> resetFrom
                      [] OTHER -> "none"

\* no AddPhoto call is followed step by step
NoCalls == <<>>

\* no Photos walk whose caller's context is followed
NoWalk == [cancelAt |-> NoFail, cancelled |-> FALSE]

\* no hash or ID function is followed
NoPure == [step |-> "none"]

\* the goroutines that call into one container
MaxThreads == 2

\* the photo objects made for one remote photo
MaxObjects == 3

\* no goroutine holds the mutex
NoThread == 0

\* the nil photo
NoObject == 0

Threads == 1..MaxThreads
Objects == 1..MaxObjects

\* a goroutine that is in no call
Idle == [op |-> "none", pc |-> "idle", obj |-> NoObject, attempt |-> 0, round |-> 0]

\* a photo object not made yet; name, nixplayID and url say whether the field
\* is known (not "" and not 0); listens says whether the cache is among the
\* object's elementDeletedListener
NotMade == [made |-> FALSE, name |-> FALSE, nixplayID |-> FALSE, url |-> FALSE, listens |-> FALSE]

\* the photo cache of the container: the object cached for the photo, foundAll
\* and whether nameToElements is built
EmptyPhotoCache == [cached |-> NoObject, foundAll |-> FALSE, nameIndex |-> FALSE]

NoLocks ==
    /\ cacheMu = NoThread
    /\ photoMu = [o \in Objects |-> NoThread]
    /\ threads = [t \in Threads |-> Idle]
    /\ objects = [o \in Objects |-> NotMade]
    /\ photoCache = EmptyPhotoCache
    /\ remote = FALSE

NoSide == pure = NoPure /\ NoLocks /\ elementDeletedListener = 0

\* a cache on its own: no container is built around it
NoContainer ==
    /\ calls = NoCalls
    /\ walk = NoWalk
    /\ NoSide
    /\ containerType = "none"
    /\ photoCount = 0
    /\ held = {}
    /\ containerLive = FALSE
    /\ containerCached = FALSE
    /\ target = 0
    /\ remoteDelete = "none"
    /\ notified = 0
    /\ hyp = TRUE

\* ------------------------------------------------------------- Spec actions
Init ==
    /\ pages \in PageSources
    /\ foundAll = FALSE
    /\ elements = <<>>
    /\ nameToElements = NilMap
    /\ uniqueNameToElement = NilMap
    /\ idToElement = EmptyMap
    /\ op = "NewCache"
    /\ err = FALSE
    /\ requested = <<>>
    /\ result = <<>>
    /\ shares = NoShare
    /\ lastAll = NoLastAll
    /\ resetFrom = "none"
    /\ NoContainer

\* Cache.All
All ==
    \E failAt \in FailAts :
        LET r == cacheAll(Cache, pages, failAt)
        IN /\ SetCache(r.c)
           /\ Return("All", r)
           /\ History("All", r)
           /\ UNCHANGED <<pages, containerVars>>

\* Cache.ElementsWithName(name) when every call of Name succeeds: the name only
\* selects the answer, which is cacheElementsWithName(Cache, pages, failAt, name).result
ElementsWithName ==
    \E failAt \in FailAts :
        LET r == cacheElementsWithName(Cache, pages, failAt, <<>>)
        IN /\ SetCache(r.c)
           /\ Return("ElementsWithName", [r EXCEPT !.result = <<>>])
           /\ History("ElementsWithName", r)
           /\ UNCHANGED <<pages, containerVars>>

\* Cache.ElementWithUniqueName(name) when every call of Name and
\* GenerateUniqueName succeeds: the name only selects the answer, which is
\* cacheElementWithUniqueName(Cache, pages, failAt, name, order).result
ElementWithUniqueName ==
    \E failAt \in FailAts :
        \E order \in RangeOrders(Cache, pages, failAt) :
            LET r == cacheElementWithUniqueName(Cache, pages, failAt, <<>>, order)
            IN /\ SetCache(r.c)
               /\ Return("ElementWithUniqueName", [r EXCEPT !.result = <<>>])
               /\ History("ElementWithUniqueName", r)
               /\ UNCHANGED <<pages, containerVars>>

\* Cache.ElementWithID(id): the id only selects the answer, which is
\* cacheElementWithID(Cache, pages, failAt, id).result
ElementWithID ==
    \E failAt \in FailAts :
        LET r == cacheElementWithID(Cache, pages, failAt, 0)
        IN /\ SetCache(r.c)
           /\ Return("ElementWithID", [r EXCEPT !.result = <<>>])
           /\ History("ElementWithID", r)
           /\ UNCHANGED <<pages, containerVars>>

\* Cache.Add(e) for an element built by the caller
Add ==
    \E e \in {x \in Element : ~x.listed} :
        /\ SetCache(cacheAdd(Cache, e))
        /\ Return("Add", NoAnswer)
        /\ History("Add", NoAnswer)
        /\ UNCHANGED <<pages, containerVars>>

\* Cache.Remove(e); Remove reads nothing of e but e.ID()
Remove ==
    \E e \in {x \in Element : ~x.listed}, nameErr \in BOOLEAN :
        LET r == cacheRemoveErr(Cache, e, nameErr)
        IN /\ SetCache(r.c)
           /\ Return("Remove", [NoAnswer EXCEPT !.err = r.err])
           /\ History("Remove", NoAnswer)
           /\ UNCHANGED <<pages, containerVars>>

\* Cache.Reset
Reset ==
    /\ SetCache(resetUnsafe(Cache))
    /\ Return("Reset", NoAnswer)
    /\ History("Reset", NoAnswer)
    /\ UNCHANGED <<pages, containerVars>>

\* the lists a caller can make of a list it was returned: the first and the
\* last entry swapped, the first entry overwritten with the last, the last
\* entry dropped
Rewritings(s) ==
    IF s = <<>> THEN {}
    ELSE {[s EXCEPT ![1] = s[Len(s)], ![Len(s)] = s[1]],
          [s EXCEPT ![1] = s[Len(s)]],
          SubSeq(s, 1, Len(s) - 1)} \ {s}

\* the slice t of the cache once the caller made w of a list that shares
\* the backing array of t
writeThrough(t, w) == [i \in 1..Len(t) |-> IF i <= Len(w) THEN w[i] ELSE t[i]]

\* the cache once the caller made w of the list returned for name n
sharedWrite(c, sh, n, w) ==
    CASE sh = "elements" -> [c EXCEPT !.elements = writeThrough(@, w)]
      [] sh = "name" /\ ~c.nameToElements.nil /\ n \in DOMAIN c.nameToElements.m
            -> [c EXCEPT !.nameToElements.m[n] = writeThrough(@, w)]
      [] OTHER -> c

\* the caller of All or of ElementsWithName(n) writes into the list it was
\* returned; an ElementsWithName that returned left the name index built,
\* so the list for n was the slice of n.  The list is the caller's own: what
\* it holds afterwards is not followed.
CallerWrites ==
    /\ op \in {"All", "ElementsWithName"}
    /\ ~err
    /\ \E n \in IF op = "All" THEN {<<>>} ELSE Names :
           \E w \in Rewritings(IF op = "All" THEN result
                                ELSE MapGetSlice(nameToElements.m, n)) :
               /\ result' = <<>>
               /\ SetCache(sharedWrite(Cache, shares, n, w))
               /\ op' = "CallerWrites"
               /\ err' = FALSE
               /\ requested' = <<>>
               /\ shares' = shares
               /\ History("CallerWrites", NoAnswer)
               /\ UNCHANGED <<pages, containerVars>>

Next ==
    \/ All
    \/ ElementsWithName
    \/ ElementWithUniqueName
    \/ ElementWithID
    \/ Add
    \/ Remove
    \/ Reset
    \/ CallerWrites

Spec == Init /\ [][Next]_vars

\* ------------------------------------------------------ NameErrSpec actions
\* The cache with elements whose Name and GenerateUniqueName may fail at any
\* call the lookups make while they build the name indexes.
\* Cache.ElementsWithName(name)
ElementsWithNameErr ==
    \E failAt \in FailAts :
        \E nf \in AfterWalk(failAt, NameFails(loadAllUnsafe(Cache, pages, NoFail).c)) :
            LET r == cacheElementsWithNameErr(Cache, pages, failAt, <<>>, nf)
            IN /\ SetCache(r.c)
               /\ Return("ElementsWithName", [r EXCEPT !.result = <<>>])
               /\ History("ElementsWithName", r)
               /\ UNCHANGED <<pages, containerVars>>

\* Cache.ElementWithUniqueName(name)
ElementWithUniqueNameErr ==
    \E failAt \in FailAts :
        \E nf \in AfterWalk(failAt, UniqueNameFails(loadAllUnsafe(Cache, pages, NoFail).c)) :
            \E order \in RangeOrders(Cache, pages, failAt) :
                LET r == cacheElementWithUniqueNameErr(Cache, pages, failAt, <<>>, order, nf)
                IN /\ SetCache(r.c)
                   /\ Return("ElementWithUniqueName", [r EXCEPT !.result = <<>>])
                   /\ History("ElementWithUniqueName", r)
                   /\ UNCHANGED <<pages, containerVars>>

NameErrNext ==
    \/ All
    \/ ElementsWithNameErr
    \/ ElementWithUniqueNameErr
    \/ ElementWithID
    \/ Add
    \/ Remove
    \/ Reset

NameErrSpec == Init /\ [][NameErrNext]_vars

TypeOK ==
    /\ foundAll \in BOOLEAN
    /\ Range(elements) \subseteq Element
    /\ DOMAIN idToElement \subseteq IDs

\* ---------------------------------------------------- container and photo
\* the value of container.photoCount while the count is not known
photoCountUnknown == -1

\* the contents a caller uploads are 1..MaxPhotos
MaxPhotos == 2

PhotoIDs == 1..MaxPhotos

\* how far photoCount may drift from the contents before the model stops counting
MaxDrift == 1

\* the remote lists its photos in an order of its own: here by content
RECURSIVE ListingOf(_, _)
ListingOf(S, i) ==
    IF i > MaxPhotos THEN <<>>
    ELSE (IF i \in S THEN <<[id |-> i, listed |-> TRUE]>> ELSE <<>>) \o ListingOf(S, i + 1)

\* the remote listing behind the pages
RECURSIVE Flatten(_)
Flatten(src) == IF Len(src) = 0 THEN <<>> ELSE src[1] \o Flatten(Tail(src))

\* the remote listing without / with the photo of content id
RemoteWithout(src, id) == Paginate(ListingOf(IDsOf(Flatten(src)) \ {id}, 1))

RemoteWith(src, id) == Paginate(ListingOf(IDsOf(Flatten(src)) \cup {id}, 1))

\* newPhoto as container.AddPhoto calls it: the ID is derived from the container
\* and the content; the Nixplay ID and the URL are not known
newPhoto(id) == [id |-> id, listed |-> FALSE]

\* the cached element as Cache.Remove reads a photo object
AsElement(h) == [id |-> h.id, listed |-> h.listed]

\* container.AddPhoto, given how addPhoto ended: "ok", "duplicate"
\* (errDuplicateImage) or "failed" (any other error)
containerAddPhoto(c, n, ctype, id, outcome) ==
    IF outcome = "failed" \/ (outcome = "duplicate" /\ ctype # "playlist")
    THEN [c |-> c, photoCount |-> n, err |-> TRUE, added |-> {}]
    ELSE LET p == newPhoto(id)
         IN [c |-> addElementUnsafe(c, p),
             photoCount |-> n + 1,
             err |-> FALSE,
             added |-> {[id |-> id, listed |-> FALSE, reg |-> id \notin DOMAIN c.idToElement]}]

\* Cache.ElementCount
cacheElementCount(c, src, failAt) ==
    LET l == loadAllUnsafe(c, src, failAt)
    IN [c |-> l.c, err |-> l.err, requested |-> l.requested,
        count |-> IF l.err THEN 0 ELSE Len(l.c.elements)]

\* container.PhotoCount
containerPhotoCount(c, n, src, failAt) ==
    IF n = photoCountUnknown
    THEN LET r == cacheElementCount(c, src, failAt)
         IN IF r.err
            THEN [c |-> r.c, photoCount |-> n, err |-> TRUE, requested |-> r.requested, count |-> 0]
            ELSE [c |-> r.c, photoCount |-> r.count, err |-> FALSE, requested |-> r.requested,
                  count |-> r.count]
    ELSE [c |-> c, photoCount |-> n, err |-> FALSE, requested |-> <<>>, count |-> n]

\* container.ElementDeleted
containerElementDeleted(n) == n - 1

\* Cache.ElementDeleted of the photo cache, whose one listener is the container
cacheElementDeleted(c, n, e) ==
    LET c1 == cacheRemove(c, e)
        n1 == containerElementDeleted(n)
    IN [c |-> cacheRemove(c1, e), photoCount |-> n1]

\* photo.attemptPopulatePhotoDataFromListSearch, after PhotoWithID answered r
attemptFound(r) ==
    [c |-> r.c, err |-> r.err,
     found |-> ~r.err /\ r.result # Empty /\ r.result[1].listed]

\* photo.attemptPopulatePhotoDataFromListSearch
attemptPopulatePhotoDataFromListSearch(c, src, failAt, h) ==
    attemptFound(cacheElementWithID(c, src, failAt, h.id))

\* photo.populatePhotoDataFromListSearch, after the second attempt answered a2
populateSlowPath(a2) == [c |-> a2.c, err |-> a2.err \/ ~a2.found]

\* photo.populatePhotoDataFromListSearch, after the first attempt answered a1
populateAfterAttempt(a1, src, fail2, h) ==
    IF a1.err \/ a1.found
    THEN [c |-> a1.c, err |-> a1.err]
    ELSE populateSlowPath(
             attemptPopulatePhotoDataFromListSearch(resetUnsafe(a1.c), src, fail2, h))

\* photo.populatePhotoDataFromListSearch
populatePhotoDataFromListSearch(c, src, fail1, fail2, h) ==
    populateAfterAttempt(attemptPopulatePhotoDataFromListSearch(c, src, fail1, h),
                         src, fail2, h)

\* photo.getNixplayID, after populatePhotoDataFromListSearch answered r
nixplayIDFrom(r, h) ==
    [c |-> r.c, err |-> r.err, h |-> IF r.err THEN h ELSE [h EXCEPT !.listed = TRUE]]

\* photo.getNixplayID
getNixplayID(c, src, fail1, fail2, h) ==
    IF h.listed
    THEN [c |-> c, err |-> FALSE, h |-> h]
    ELSE nixplayIDFrom(populatePhotoDataFromListSearch(c, src, fail1, fail2, h), h)

\* photo.Delete, the loop over p.elementDeletedListener: the cache the photo
\* object was added to, if any
notifyListeners(c, n, h) ==
    IF h.reg THEN cacheElementDeleted(c, n, AsElement(h))
    ELSE [c |-> c, photoCount |-> n]

\* the outcome of photo.Delete once the listeners have answered d
photoDeleted(d, src, h, remoteOK) ==
    [c |-> d.c, photoCount |-> d.photoCount,
     pages |-> IF remoteOK THEN RemoteWithout(src, h.id) ELSE src,
     err |-> ~remoteOK, h |-> h,
     remoteDelete |-> IF remoteOK THEN "ok" ELSE "failed",
     notified |-> IF h.reg THEN 1 ELSE 0]

\* a photo.Delete that notifies the listeners whatever the remote answers,
\* after getNixplayID answered g
photoDeleteNotifiesEarlyWithID(g, n, src, remoteOK) ==
    IF g.err
    THEN [c |-> g.c, photoCount |-> n, pages |-> src, err |-> TRUE, h |-> g.h,
          remoteDelete |-> "none", notified |-> 0]
    ELSE photoDeleted(notifyListeners(g.c, n, g.h), src, g.h, remoteOK)

\* photo.Delete after getNixplayID answered g
photoDeleteWithID(g, n, src, remoteOK) ==
    IF g.err
    THEN [c |-> g.c, photoCount |-> n, pages |-> src, err |-> TRUE, h |-> g.h,
          remoteDelete |-> "none", notified |-> 0]
    ELSE IF ~remoteOK
    THEN [c |-> g.c, photoCount |-> n, pages |-> src, err |-> TRUE, h |-> g.h,
          remoteDelete |-> "failed", notified |-> 0]
    ELSE photoDeleted(notifyListeners(g.c, n, g.h), src, g.h, remoteOK)

\* a photo.Delete that notifies the listeners whatever the remote answers
photoDeleteNotifiesEarly(c, n, src, h, fail1, fail2, remoteOK) ==
    photoDeleteNotifiesEarlyWithID(getNixplayID(c, src, fail1, fail2, h), n, src, remoteOK)

\* photo.Delete.  remoteOK: the delete request is answered with a success status
photoDelete(c, n, src, h, fail1, fail2, remoteOK) ==
    photoDeleteWithID(getNixplayID(c, src, fail1, fail2, h), n, src, remoteOK)

\* container.Delete; its one listener is the cache that indexes the container,
\* whose ElementDeleted removes it
containerDelete(cached, remoteOK) ==
    IF ~remoteOK
    THEN [cached |-> cached, err |-> TRUE, remoteDelete |-> "failed", notified |-> 0]
    ELSE [cached |-> FALSE, err |-> FALSE, remoteDelete |-> "ok", notified |-> 1]

\* ------------------------------------------------ ContainerSpec actions
\* The container is followed until its remote deletion succeeds.  Its
\* PhotosWithName and PhotoWithUniqueName hand the call to the photo cache's
\* ElementsWithName and ElementWithUniqueName, which Spec drives; they read and
\* write the two name indexes only, which no action below reads, so the name
\* indexes stay nil here.
\* what the caller of the last container or photo operation saw
Called(o, r, t, rd, k) ==
    /\ op' = o
    /\ err' = r.err
    /\ requested' = <<>>
    /\ result' = <<>>
    /\ shares' = NoShare
    /\ target' = t
    /\ remoteDelete' = rd
    /\ notified' = k
    /\ UNCHANGED <<histVars, uploadVars, sideVars>>

\* the photo objects a caller can call Delete on: the ones it holds (of each
\* content the object it got last) and the ones the cache hands out, each
\* registered with the cache when it was added
Handles ==
    held \cup {[id |-> e.id, listed |-> e.listed, reg |-> TRUE] : e \in Range(elements)}

\* the page requests a walk of the reset cache may see fail
FailAtsAfterReset == {NoFail} \cup (0..Len(pages))

ContainerInit ==
    /\ pages \in {Paginate(ListingOf(S, 1)) : S \in SUBSET PhotoIDs}
    /\ foundAll = FALSE
    /\ elements = <<>>
    /\ nameToElements = NilMap
    /\ uniqueNameToElement = NilMap
    /\ idToElement = EmptyMap
    /\ op = "newContainer"
    /\ err = FALSE
    /\ requested = <<>>
    /\ result = <<>>
    /\ shares = NoShare
    /\ lastAll = NoLastAll
    /\ resetFrom = "none"
    /\ containerType \in {"album", "playlist"}
    /\ photoCount \in {photoCountUnknown, Len(Flatten(pages))}
    /\ held = {}
    /\ containerLive = TRUE
    /\ containerCached = TRUE
    /\ target = 0
    /\ remoteDelete = "none"
    /\ notified = 0
    /\ hyp = TRUE
    /\ calls = NoCalls
    /\ walk = NoWalk
    /\ NoSide

\* container.Photos
Photos ==
    /\ containerLive
    /\ \E failAt \in FailAts :
        LET r == cacheAll(Cache, pages, failAt)
        IN /\ SetCache(r.c)
           /\ Called("Photos", r, 0, "none", 0)
           /\ hyp' = (hyp /\ ~r.err)
           /\ UNCHANGED <<pages, containerType, photoCount, held, containerLive, containerCached>>

\* container.PhotoWithID(id): the id only selects the answer
PhotoWithID ==
    /\ containerLive
    /\ \E failAt \in FailAts :
        LET r == cacheElementWithID(Cache, pages, failAt, 0)
        IN /\ SetCache(r.c)
           /\ Called("PhotoWithID", r, 0, "none", 0)
           /\ hyp' = (hyp /\ ~r.err)
           /\ UNCHANGED <<pages, containerType, photoCount, held, containerLive, containerCached>>

\* container.PhotoCount
PhotoCount ==
    /\ containerLive
    /\ \E failAt \in FailAts :
        LET r == containerPhotoCount(Cache, photoCount, pages, failAt)
        IN /\ SetCache(r.c)
           /\ photoCount' = r.photoCount
           /\ Called("PhotoCount", r, 0, "none", 0)
           /\ hyp' = (hyp /\ ~r.err)
           /\ UNCHANGED <<pages, containerType, held, containerLive, containerCached>>

\* container.AddPhoto of content id.  The upload answers "ok" only for content
\* the container does not hold, an album answers "duplicate" only for content
\* it holds, and a playlist may answer "duplicate" for any content (the content
\* is in "My Uploads") and links the photo all the same.  A failed upload may or
\* may not have landed.
AddPhoto ==
    /\ containerLive
    /\ photoCount < MaxPhotos + MaxDrift
    /\ \E id \in PhotoIDs, outcome \in {"ok", "duplicate", "failed"}, landed \in BOOLEAN :
        LET r == containerAddPhoto(Cache, photoCount, containerType, id, outcome)
            has == id \in IDsOf(Flatten(pages))
        IN /\ outcome = "ok" => ~has /\ landed
           /\ outcome = "duplicate" => landed /\ (containerType = "album" => has)
           /\ outcome = "failed" => (has => landed)
           /\ SetCache(r.c)
           /\ photoCount' = r.photoCount
           /\ held' = IF r.err THEN held ELSE {x \in held : x.id # id} \cup r.added
           /\ pages' = IF landed THEN RemoteWith(pages, id) ELSE pages
           /\ Called("AddPhoto", r, id, "none", 0)
           /\ hyp' = (hyp /\ ~r.err /\ ~has /\ id \notin {h.id : h \in held})
           /\ UNCHANGED <<containerType, containerLive, containerCached>>

\* photo.Delete on a photo object h
PhotoDelete ==
    /\ containerLive
    /\ photoCount > photoCountUnknown - MaxDrift
    /\ \E h \in Handles, remoteOK \in BOOLEAN :
        \E fail1 \in (IF h.listed THEN {NoFail} ELSE FailAts),
           fail2 \in (IF h.listed THEN {NoFail} ELSE FailAtsAfterReset) :
            LET r == photoDelete(Cache, photoCount, pages, h, fail1, fail2, remoteOK)
            IN /\ SetCache(r.c)
               /\ photoCount' = r.photoCount
               /\ pages' = r.pages
               /\ held' = {x \in held : x.id # h.id} \cup {r.h}
               /\ Called("PhotoDelete", r, h.id, r.remoteDelete, r.notified)
               /\ hyp' = (hyp /\ ~r.err)
               /\ UNCHANGED <<containerType, containerLive, containerCached>>

\* container.ResetCache
ResetCache ==
    /\ containerLive
    /\ SetCache(resetUnsafe(Cache))
    /\ Called("ResetCache", NoAnswer, 0, "none", 0)
    /\ UNCHANGED <<pages, containerType, photoCount, held, containerLive, containerCached, hyp>>

\* container.Delete
ContainerDelete ==
    /\ containerLive
    /\ \E remoteOK \in BOOLEAN :
        LET r == containerDelete(containerCached, remoteOK)
        IN /\ containerCached' = r.cached
           /\ containerLive' = ~remoteOK
           /\ Called("ContainerDelete", r, 0, r.remoteDelete, r.notified)
           /\ hyp' = FALSE
           /\ UNCHANGED <<pages, cacheVars, containerType, photoCount, held>>

ContainerNext ==
    \/ Photos
    \/ PhotoWithID
    \/ PhotoCount
    \/ AddPhoto
    \/ PhotoDelete
    \/ ResetCache
    \/ ContainerDelete

ContainerSpec == ContainerInit /\ [][ContainerNext]_vars

\* ------------------------------------------------------- the upload pipeline
\* the remote steps of addPhoto in the order it issues them
UploadSteps == <<"getUploadToken", "uploadNixplay", "uploadS3", "monitorUpload">>

\* httpx.StatusError: the status is no success status
StatusError(status) == status < 200 \/ status >= 300

\* the answers of the upload monitor: client.Do fails (doErr), or a status and
\* a body, which may fail to be read
MonitorResponses ==
    {[doErr |-> TRUE, status |-> 0, body |-> "", readErr |-> FALSE],
     [doErr |-> FALSE, status |-> 200, body |-> "", readErr |-> FALSE],
     [doErr |-> FALSE, status |-> 400, body |-> "Error: image-exists", readErr |-> FALSE],
     [doErr |-> FALSE, status |-> 400, body |-> "Error: image-exists", readErr |-> TRUE],
     [doErr |-> FALSE, status |-> 400, body |-> "Error: other", readErr |-> FALSE],
     [doErr |-> FALSE, status |-> 500, body |-> "", readErr |-> FALSE]}

NoResponse == [doErr |-> FALSE, status |-> 0, body |-> "", readErr |-> FALSE]

\* monitorUpload without the special case of status 400
monitorUploadNoDuplicateCase(resp) ==
    IF resp.doErr THEN "other"
    ELSE IF StatusError(resp.status) THEN "other"
    ELSE "none"

\* monitorUpload: the error it returns for the monitor's answer, "none" for nil,
\* "duplicate" for errDuplicateImage.  The request is built with
\* context.Background(), so the caller's context plays no part.
monitorUpload(resp) ==
    IF resp.doErr THEN "other"
    ELSE IF resp.status = 400
    THEN IF resp.readErr THEN "other"
         ELSE IF resp.body = "Error: image-exists" THEN "duplicate"
         ELSE "other"
    ELSE IF StatusError(resp.status) THEN "other"
    ELSE "none"

\* a request built with the caller's context (httpx.NewPostFormRequest, the
\* request of uploadS3): it is aborted when the context is cancelled
doWithContext(cancelled, remoteOK) ==
    IF cancelled THEN "cancelled"
    ELSE IF remoteOK THEN "none"
    ELSE "other"

\* container.AddPhoto clearing the duplicate error for every container type
fatalUnlessDuplicate(ctype, e) == e # "none" /\ e # "duplicate"

\* container.AddPhoto: the error of addPhoto makes the call return it
fatal(ctype, e) == e # "none" /\ ~(e = "duplicate" /\ ctype = "playlist")

\* albumPhotosPage: the error of the request for a page.  The request is built
\* with context.Background(), so the caller's context plays no part.
albumPhotosPage(page, failAt, cancelled) == IF page = failAt THEN "other" ELSE "none"

\* an AddPhoto call that has not started
NewCall ==
    [pc |-> "getUploadPhotoData", cancelAt |-> "none", issued |-> <<>>, err |-> "none",
     ids |-> TRUE, monitor |-> NoResponse, photo |-> FALSE]

\* the call returns the error e and no photo
ReturnError(call, e) == [call EXCEPT !.pc = "returned", !.err = e]

\* a call that issues the step it is at and, once more, as a retry
IssueAndRetry(call) == [call EXCEPT !.issued = Append(Append(@, call.pc), call.pc)]

\* the call issues the remote step it is at
Issue(call) == [call EXCEPT !.issued = Append(@, call.pc)]

\* --------------------------------------------- UploadSpec: concurrent uploads
\* One container and its photo cache, with one AddPhoto call per content, the
\* calls running concurrently and each followed step by step: the local read
\* of the content, the four remote steps, the insertion in the cache (under
\* the cache's lock) and the increment of the count (under the container's
\* mutex).  The context of a call can be cancelled while a remote step is in
\* flight.  container.Photos walks the listing under the cache's lock.
Procs == PhotoIDs

uploadIdle == <<lastAll, resetFrom, held, containerLive, containerCached, target,
                remoteDelete, notified, hyp, containerType, sideVars>>

UploadInit ==
    /\ pages \in {Paginate(ListingOf(S, 1)) : S \in SUBSET PhotoIDs}
    /\ foundAll = FALSE
    /\ elements = <<>>
    /\ nameToElements = NilMap
    /\ uniqueNameToElement = NilMap
    /\ idToElement = EmptyMap
    /\ op = "newContainer"
    /\ err = FALSE
    /\ requested = <<>>
    /\ result = <<>>
    /\ shares = NoShare
    /\ lastAll = NoLastAll
    /\ resetFrom = "none"
    /\ containerType \in {"album", "playlist"}
    /\ photoCount = Len(Flatten(pages))
    /\ held = {}
    /\ containerLive = TRUE
    /\ containerCached = TRUE
    /\ target = 0
    /\ remoteDelete = "none"
    /\ notified = 0
    /\ hyp = TRUE
    /\ calls = [p \in Procs |-> NewCall]
    /\ walk = NoWalk
    /\ NoSide

\* a step of call p that touches neither the cache nor the remote listing
LocalStep(p, call) ==
    /\ calls' = [calls EXCEPT ![p] = call]
    /\ UNCHANGED <<pages, cacheVars, callVars, photoCount, walk, uploadIdle>>

\* addPhoto: getUploadPhotoData reads and hashes the content
GetUploadPhotoData(p) ==
    /\ calls[p].pc = "getUploadPhotoData"
    /\ \E ok \in BOOLEAN :
        LocalStep(p, IF ok THEN [calls[p] EXCEPT !.pc = "getUploadToken"]
                     ELSE ReturnError(calls[p], "other"))

\* the context of call p is cancelled while the step it is at is in flight
Cancel(p) ==
    /\ calls[p].pc \in Range(UploadSteps)
    /\ calls[p].cancelAt = "none"
    /\ LocalStep(p, [calls[p] EXCEPT !.cancelAt = calls[p].pc])

\* addPhoto: getUploadToken
GetUploadToken(p) ==
    /\ calls[p].pc = "getUploadToken"
    /\ \E ok \in BOOLEAN :
        LET e == doWithContext(calls[p].cancelAt # "none", ok)
        IN LocalStep(p, IF e = "none" THEN [Issue(calls[p]) EXCEPT !.pc = "uploadNixplay"]
                        ELSE ReturnError(Issue(calls[p]), e))

\* addPhoto: uploadNixplay; ids tells whether the answer names one upload ID
UploadNixplay(p) ==
    /\ calls[p].pc = "uploadNixplay"
    /\ \E ok \in BOOLEAN, ids \in BOOLEAN :
        LET e == doWithContext(calls[p].cancelAt # "none", ok)
        IN LocalStep(p, IF e = "none"
                        THEN [Issue(calls[p]) EXCEPT !.pc = "uploadS3", !.ids = ids]
                        ELSE ReturnError(Issue(calls[p]), e))

\* addPhoto: uploadS3, then the check that there is one upload ID to monitor
UploadS3(p) ==
    /\ calls[p].pc = "uploadS3"
    /\ \E ok \in BOOLEAN :
        LET e == doWithContext(calls[p].cancelAt # "none", ok)
        IN LocalStep(p, IF e # "none" THEN ReturnError(Issue(calls[p]), e)
                        ELSE IF ~calls[p].ids THEN ReturnError(Issue(calls[p]), "other")
                        ELSE [Issue(calls[p]) EXCEPT !.pc = "monitorUpload"])

\* addPhoto: monitorUpload, then container.AddPhoto's reading of the error.
\* The monitor says "image-exists" only of a content the service has, and
\* reports success only of a content the container did not list.
MonitorUpload(p) ==
    /\ calls[p].pc = "monitorUpload"
    /\ \E resp \in MonitorResponses, landed \in BOOLEAN :
        LET e == monitorUpload(resp)
            has == p \in IDsOf(Flatten(pages))
            call == [Issue(calls[p]) EXCEPT !.monitor = resp]
        IN /\ e = "none" => ~has /\ landed
           /\ e = "duplicate" => landed /\ (containerType = "album" => has)
           /\ e = "other" => (has => landed)
           /\ pages' = IF landed THEN RemoteWith(pages, p) ELSE pages
           /\ calls' = [calls EXCEPT ![p] = IF fatal(containerType, e) THEN ReturnError(call, e)
                                            ELSE [call EXCEPT !.pc = "Add"]]
           /\ UNCHANGED <<cacheVars, callVars, photoCount, walk, uploadIdle>>

\* container.AddPhoto: newPhoto and photoCache.Add
CacheAdd(p) ==
    /\ calls[p].pc = "Add"
    /\ SetCache(addElementUnsafe(Cache, newPhoto(p)))
    /\ calls' = [calls EXCEPT ![p] = [calls[p] EXCEPT !.pc = "photoCount"]]
    /\ UNCHANGED <<pages, callVars, photoCount, walk, uploadIdle>>

\* container.AddPhoto: the count is incremented and the photo returned
CountPhoto(p) ==
    /\ calls[p].pc = "photoCount"
    /\ photoCount' = photoCount + 1
    /\ calls' = [calls EXCEPT ![p] = [calls[p] EXCEPT !.pc = "returned", !.photo = TRUE]]
    /\ UNCHANGED <<pages, cacheVars, callVars, walk, uploadIdle>>

\* container.Photos while uploads are under way: the caller's context is
\* cancelled while page cancelAt is requested, or not at all
WalkPhotos ==
    \E failAt \in FailAts, cancelAt \in {NoFail} \cup (0..Len(pages)) :
        LET r == cacheAll(Cache, pages, failAt)
        IN /\ SetCache(r.c)
           /\ op' = "Photos"
           /\ err' = r.err
           /\ requested' = <<>>
           /\ result' = <<>>
           /\ shares' = NoShare
           /\ walk' = [cancelAt |-> IF cancelAt \in Range(r.requested) THEN cancelAt ELSE NoFail,
                       cancelled |-> \E k \in 1..Len(r.requested) :
                                        albumPhotosPage(r.requested[k], failAt,
                                                        r.requested[k] = cancelAt) = "cancelled"]
           /\ UNCHANGED <<pages, photoCount, calls, uploadIdle>>

UploadNext ==
    \/ \E p \in Procs : GetUploadPhotoData(p)
    \/ \E p \in Procs : Cancel(p)
    \/ \E p \in Procs : GetUploadToken(p)
    \/ \E p \in Procs : UploadNixplay(p)
    \/ \E p \in Procs : UploadS3(p)
    \/ \E p \in Procs : MonitorUpload(p)
    \/ \E p \in Procs : CacheAdd(p)
    \/ \E p \in Procs : CountPhoto(p)
    \/ WalkPhotos

UploadSpec == UploadInit /\ [][UploadNext]_vars

\* ------------------------------------------------- content hashes and IDs
\* the bytes of a content hash (md5.Size), scaled down
md5Size == 1

\* the remote numeric IDs of containers are 0..MaxNixplayID
MaxNixplayID == 1

\* the characters a text is made of: a digit, a letter in both cases, and a
\* character that is no hexadecimal digit
TextChars == {"1", "a", "A", "g"}

\* the texts handed to MD5Hash.UnmarshalText: up to one character more than
\* a content hash takes
Texts == UNION {[1..n -> TextChars] : n \in 0..(2 * md5Size + 1)}

\* encoding/hex, fromHexChar: the value of a hexadecimal digit, 16 for any
\* other character
fromHexChar(ch) ==
    CASE ch = "1" -> 1
      [] ch = "a" -> 10
      [] ch = "A" -> 10
      [] OTHER -> 16

\* encoding/hex, DecodedLen
DecodedLen(x) == x \div 2

\* encoding/hex, Decode from pair i on: the bytes decoded and the error.  An
\* invalid character ends the decoding; an odd length is reported after the
\* pairs, unless the last character is invalid.
RECURSIVE hexDecodeFrom(_, _, _)
hexDecodeFrom(src, i, dst) ==
    IF 2 * i <= Len(src)
    THEN IF fromHexChar(src[2 * i - 1]) > 15 \/ fromHexChar(src[2 * i]) > 15
         THEN [bytes |-> dst, err |-> "InvalidByteError"]
         ELSE hexDecodeFrom(src, i + 1,
                            Append(dst, 16 * fromHexChar(src[2 * i - 1]) + fromHexChar(src[2 * i])))
    ELSE IF Len(src) % 2 = 1
    THEN IF fromHexChar(src[Len(src)]) > 15
         THEN [bytes |-> dst, err |-> "InvalidByteError"]
         ELSE [bytes |-> dst, err |-> "ErrLength"]
    ELSE [bytes |-> dst, err |-> "none"]

hexDecode(src) == hexDecodeFrom(src, 1, <<>>)

\* the zero value of MD5Hash
ZeroHash == [i \in 1..md5Size |-> 0]

\* Decode writes into hash[:]: the bytes decoded replace the first ones
Overwrite(hash, bytes) == [i \in 1..md5Size |-> IF i <= Len(bytes) THEN bytes[i] ELSE hash[i]]

\* MD5Hash.UnmarshalText dropping the error of the decoding
UnmarshalTextLengthOnly(data) ==
    IF DecodedLen(Len(data)) # md5Size
    THEN [err |-> "invalid md5 hash length", hash |-> ZeroHash]
    ELSE [err |-> "none", hash |-> Overwrite(ZeroHash, hexDecode(data).bytes)]

\* MD5Hash.UnmarshalText on a zero hash: the error and the hash afterwards
UnmarshalText(data) ==
    IF DecodedLen(Len(data)) # md5Size
    THEN [err |-> "invalid md5 hash length", hash |-> ZeroHash]
    ELSE [err |-> hexDecode(data).err, hash |-> Overwrite(ZeroHash, hexDecode(data).bytes)]

\* A photo URL is "" or carries a text where the content hash is expected:
\* "https://host/<digits>/<digits>_<text>.jpg?..."
NoURL == [empty |-> TRUE, text |-> <<>>]
URLWith(text) == [empty |-> FALSE, text |-> text]

\* md5HashFromPhotoURLPath: the submatch of the regular expression, or none.
\* It matches when the text starts with as many hexadecimal digits as a
\* content hash takes, and captures those.
FindStringSubmatch(url) ==
    IF /\ Len(url.text) >= 2 * md5Size
       /\ \A i \in 1..(2 * md5Size) : fromHexChar(url.text[i]) <= 15
    THEN <<SubSeq(url.text, 1, 2 * md5Size)>>
    ELSE <<>>

\* md5HashFromPhotoURL: the error and the hash returned
md5HashFromPhotoURL(url) ==
    IF FindStringSubmatch(url) = <<>>
    THEN [err |-> "regexp failed to find MD5 hash in URL", hash |-> ZeroHash]
    ELSE IF UnmarshalText(FindStringSubmatch(url)[1]).err # "none"
    THEN [err |-> UnmarshalText(FindStringSubmatch(url)[1]).err, hash |-> ZeroHash]
    ELSE [err |-> "none", hash |-> UnmarshalText(FindStringSubmatch(url)[1]).hash]

\* sha256, taken to be free of collisions: a digest stands for what was hashed
SHA256(bytes) == [sha256 |-> bytes]

\* []byte(containerType)
TypeBytes(ctype) ==
    IF ctype = "album" THEN <<"a", "l", "b", "u", "m">>
    ELSE <<"p", "l", "a", "y", "l", "i", "s", "t">>

\* binary.LittleEndian.PutUint64
RECURSIVE littleEndian(_, _)
littleEndian(n, width) ==
    IF width = 0 THEN <<>> ELSE <<n % 256>> \o littleEndian(n \div 256, width - 1)

PutUint64(n) == littleEndian(n, 8)

\* the containers: their kind and their remote numeric ID
Containers == [containerType : {"album", "playlist"}, nixplayID : 0..MaxNixplayID]

\* newContainer deriving the ID from the remote numeric ID alone
containerIDOfNumberOnly(k) == SHA256(PutUint64(k.nixplayID))

\* newContainer: the ID of the container
containerID(k) == SHA256(TypeBytes(k.containerType) \o PutUint64(k.nixplayID))

\* no md5Hash is handed to newPhoto
NilHash == <<>>

NoPhoto == [err |-> "none", made |-> FALSE]

\* newPhoto deriving the ID from the URL as well
newPhotoWithHashesURL(k, md5Hash, nixplayID, url) ==
    [err |-> "none", made |-> TRUE,
     id |-> SHA256(<<containerID(k)>> \o md5Hash \o url.text), md5Hash |-> md5Hash,
     nixplayID |-> nixplayID, url |-> url]

\* newPhoto(container k, md5Hash or nil, nixplayID, url): the error, or the
\* photo object with its ID, its content hash, its remote ID and its URL
newPhotoWith(k, md5Hash, nixplayID, url) ==
    [err |-> "none", made |-> TRUE,
     id |-> SHA256(<<containerID(k)>> \o md5Hash), md5Hash |-> md5Hash,
     nixplayID |-> nixplayID, url |-> url]

\* newPhoto building the photo object without a hash when none is at hand
newPhotoInDefersHash(k, md5Hash, nixplayID, url) ==
    IF md5Hash # NilHash THEN newPhotoWith(k, md5Hash, nixplayID, url)
    ELSE IF url = NoURL \/ md5HashFromPhotoURL(url).err # "none"
    THEN newPhotoWith(k, NilHash, nixplayID, url)
    ELSE newPhotoWith(k, md5HashFromPhotoURL(url).hash, nixplayID, url)

newPhotoIn(k, md5Hash, nixplayID, url) ==
    IF md5Hash # NilHash THEN newPhotoWith(k, md5Hash, nixplayID, url)
    ELSE IF url = NoURL THEN [err |-> "MD5 or photo URL must be provided", made |-> FALSE]
    ELSE IF md5HashFromPhotoURL(url).err # "none"
    THEN [err |-> md5HashFromPhotoURL(url).err, made |-> FALSE]
    ELSE newPhotoWith(k, md5HashFromPhotoURL(url).hash, nixplayID, url)

\* nixplayAlbumPhoto.ToPhoto: the listing gives the hash as a text, which the
\* JSON decoder hands to UnmarshalText; a text it rejects fails the page
albumToPhoto(k, text, nixplayID, url) ==
    IF UnmarshalText(text).err # "none"
    THEN [err |-> UnmarshalText(text).err, made |-> FALSE]
    ELSE newPhotoIn(k, UnmarshalText(text).hash, nixplayID, url)

\* nixplayPlaylistPhoto.ToPhoto: the listing gives the URL only
playlistToPhoto(k, nixplayID, url) == newPhotoIn(k, NilHash, nixplayID, url)

\* attemptPopulatePhotoDataFromListSearch: the photo p takes the remote ID
\* and the URL of the photo the container found under p's ID
populateFrom(p, found) ==
    IF found.made /\ p.made /\ found.id = p.id /\ found.nixplayID # 0 /\ found.url # NoURL
    THEN [p EXCEPT !.nixplayID = found.nixplayID, !.url = found.url]
    ELSE p

\* ------------------------------------------- PhotoSpec: hashes and IDs
\* The inputs are drawn at the start: the content hash the upload computes
\* of the bytes it sends, the text the service gives for that photo where a
\* content hash is expected, and two containers.  The steps apply the
\* functions to them in the order the program does: the containers are
\* built, the photo is added to both, the first container lists it, and the
\* uploaded photo object takes the remote data of the listed one.  A text is
\* also parsed on its own.  The cache is the photo cache of the first
\* container; its elements carry the IDs newPhoto computes.

\* the bytes the texts over TextChars can name
HashBytes == {16 * a + b : a, b \in {1, 10}}

Hashes == [1..md5Size -> HashBytes]

\* the hash the service reports any text for
FirstHash == [i \in 1..md5Size |-> 17]

\* hex.EncodeToString digit by digit, in lower or upper case
EncodeDigit(v, upper) == IF v = 1 THEN "1" ELSE IF upper THEN "A" ELSE "a"

Nibble(hash, i) == IF i % 2 = 1 THEN hash[(i + 1) \div 2] \div 16 ELSE hash[i \div 2] % 16

\* the hexadecimal texts of a hash
EncodedTexts(hash) ==
    {[i \in 1..(2 * md5Size) |-> EncodeDigit(Nibble(hash, i), upper[i])] :
        upper \in [1..(2 * md5Size) -> BOOLEAN]}

\* the remote ID the service lists the photo under
ListedNixplayID == 1

PhotoInit ==
    /\ pure \in {[step |-> "inputs", text |-> t, hash |-> h, k1 |-> k1, k2 |-> k2,
                  c1 |-> SHA256(<<>>), c2 |-> SHA256(<<>>),
                  up1 |-> NoPhoto, up2 |-> NoPhoto, url |-> NoURL, ls |-> NoPhoto,
                  parsed |-> [err |-> "none", hash |-> ZeroHash]] :
                    t \in Texts, h \in Hashes, k1 \in Containers, k2 \in Containers}
    /\ pure.hash = FirstHash \/ pure.text \in EncodedTexts(pure.hash)
    /\ pages = <<>>
    /\ foundAll = FALSE
    /\ elements = <<>>
    /\ nameToElements = NilMap
    /\ uniqueNameToElement = NilMap
    /\ idToElement = EmptyMap
    /\ op = "none"
    /\ err = FALSE
    /\ requested = <<>>
    /\ result = <<>>
    /\ shares = NoShare
    /\ lastAll = NoLastAll
    /\ resetFrom = "none"
    /\ calls = NoCalls
    /\ walk = NoWalk
    /\ containerType = "none"
    /\ photoCount = 0
    /\ held = {}
    /\ containerLive = FALSE
    /\ containerCached = FALSE
    /\ target = 0
    /\ remoteDelete = "none"
    /\ notified = 0
    /\ hyp = TRUE
    /\ NoLocks
    /\ elementDeletedListener = 0

photoIdle == <<lockVars, elementDeletedListener, histVars, containerType, photoCount, held,
               containerLive, containerCached, target, remoteDelete, notified, hyp,
               uploadVars>>

\* the cache element of a photo object
PhotoElement(p, listed) == [id |-> p.id, listed |-> listed]

\* the listing of the first container: the photo on page 0 when the
\* conversion of the page succeeds, else the request of page 0 fails
ListingWith(p) == IF p.made THEN <<<<PhotoElement(p, TRUE)>>>> ELSE <<>>
ListingFailAt(p) == IF p.made THEN NoFail ELSE 0

\* container.Photos after the listing is converted to the photo p
PhotosWith(p) ==
    /\ pages' = ListingWith(p)
    /\ SetCache(cacheAll(Cache, ListingWith(p), ListingFailAt(p)).c)
    /\ Return("Photos", cacheAll(Cache, ListingWith(p), ListingFailAt(p)))

\* MD5Hash.UnmarshalText of the text
ParseText ==
    /\ pure.step = "inputs"
    /\ pure' = [pure EXCEPT !.step = "parsed", !.parsed = UnmarshalText(pure.text)]
    /\ UNCHANGED <<pages, cacheVars, callVars, photoIdle>>

\* newContainer, twice
NewContainers ==
    /\ pure.step = "inputs"
    /\ pure' = [pure EXCEPT !.step = "containers",
                            !.c1 = containerID(pure.k1), !.c2 = containerID(pure.k2)]
    /\ UNCHANGED <<pages, cacheVars, callVars, photoIdle>>

\* container.AddPhoto on both containers: newPhoto with the hash of the bytes
\* sent, no remote ID and no URL; the photo cache of the first container
\* takes its photo
AddPhotos ==
    /\ pure.step = "containers"
    /\ pure' = [pure EXCEPT !.step = "added",
                            !.up1 = newPhotoIn(pure.k1, pure.hash, 0, NoURL),
                            !.up2 = newPhotoIn(pure.k2, pure.hash, 0, NoURL)]
    /\ SetCache(addElementUnsafe(Cache, PhotoElement(newPhotoIn(pure.k1, pure.hash, 0, NoURL), FALSE)))
    /\ Return("AddPhoto", NoAnswer)
    /\ UNCHANGED <<pages, photoIdle>>

\* the first container is an album: container.Photos walks its listing,
\* which holds the photo
AlbumToPhoto ==
    /\ pure.step = "added"
    /\ pure.k1.containerType = "album"
    /\ \E url \in {NoURL, URLWith(pure.text)} :
           /\ pure' = [pure EXCEPT !.step = "listed", !.url = url,
                                   !.ls = albumToPhoto(pure.k1, pure.text, ListedNixplayID, url)]
           /\ PhotosWith(albumToPhoto(pure.k1, pure.text, ListedNixplayID, url))
    /\ UNCHANGED photoIdle

\* the first container is a playlist: container.Photos walks its listing,
\* which holds the photo
PlaylistToPhoto ==
    /\ pure.step = "added"
    /\ pure.k1.containerType = "playlist"
    /\ \E url \in {NoURL, URLWith(pure.text)} :
           /\ pure' = [pure EXCEPT !.step = "listed", !.url = url,
                                   !.ls = playlistToPhoto(pure.k1, ListedNixplayID, url)]
           /\ PhotosWith(playlistToPhoto(pure.k1, ListedNixplayID, url))
    /\ UNCHANGED photoIdle

\* photo.populatePhotoDataFromListSearch on the uploaded photo object
Populate ==
    /\ pure.step = "listed"
    /\ pure' = [pure EXCEPT !.step = "populated", !.up1 = populateFrom(pure.up1, pure.ls)]
    /\ UNCHANGED <<pages, cacheVars, callVars, photoIdle>>

PhotoNext ==
    \/ ParseText
    \/ NewContainers
    \/ AddPhotos
    \/ AlbumToPhoto
    \/ PlaylistToPhoto
    \/ Populate

PhotoSpec == PhotoInit /\ [][PhotoNext]_vars

\* ------------------------------------- LockSpec: the mutexes of a container
\* One container, one remote photo, the photo objects made for it, and the
\* goroutines that call into the container and the photo objects.  Cache.mu
\* and photo.mu are sync.Mutex: a goroutine that locks a mutex that is held,
\* by another goroutine or by itself, waits until it is unlocked.  A critical
\* section that locks nothing else is one step, taken when the mutex is
\* free; a goroutine about to lock a mutex inside another critical section
\* stands at a position of its own, so that a goroutine that waits is seen.

Unmade == {o \in Objects : ~objects[o].made}

\* the object the next newPhoto makes
NextObject == CHOOSE o \in Unmade : \A x \in Unmade : o <= x

\* nixplayAlbumPhoto.ToPhoto and nixplayPlaylistPhoto.ToPhoto: the listing of
\* an album gives the name, the listing of a playlist does not
ListedObject ==
    [made |-> TRUE, name |-> containerType = "album", nixplayID |-> TRUE, url |-> TRUE,
     listens |-> TRUE]

\* container.AddPhoto: newPhoto with the caller's name, no remote ID, no URL
UploadedObject(named, added) ==
    [made |-> TRUE, name |-> named, nixplayID |-> FALSE, url |-> FALSE, listens |-> added]

\* a walk can make the object it may need
CanWalk == photoCache.foundAll \/ ~remote \/ photoCache.cached # NoObject \/ Unmade # {}

\* Cache.loadAllUnsafe; ok: the page requests succeed.  The cache and the
\* objects afterwards, and whether an error is returned.
walkListing(ok) ==
    IF photoCache.foundAll
    THEN [c |-> photoCache, o |-> objects, err |-> FALSE]
    ELSE IF ~ok
    THEN [c |-> photoCache, o |-> objects, err |-> TRUE]
    ELSE IF remote /\ photoCache.cached = NoObject
    THEN [c |-> [cached |-> NextObject, foundAll |-> TRUE, nameIndex |-> FALSE],
          o |-> [objects EXCEPT ![NextObject] = ListedObject],
          err |-> FALSE]
    ELSE [c |-> [photoCache EXCEPT !.foundAll = TRUE], o |-> objects, err |-> FALSE]

lockIdle == <<pages, cacheVars, callVars, histVars, photoCount, held, containerLive,
              containerCached, target, remoteDelete, notified, hyp, uploadVars, pure,
              containerType, elementDeletedListener>>

LockInit ==
    /\ pages = <<>>
    /\ foundAll = FALSE
    /\ elements = <<>>
    /\ nameToElements = NilMap
    /\ uniqueNameToElement = NilMap
    /\ idToElement = EmptyMap
    /\ op = "none"
    /\ err = FALSE
    /\ requested = <<>>
    /\ result = <<>>
    /\ shares = NoShare
    /\ lastAll = NoLastAll
    /\ resetFrom = "none"
    /\ calls = NoCalls
    /\ walk = NoWalk
    /\ containerType \in {"album", "playlist"}
    /\ photoCount = 0
    /\ held = {}
    /\ containerLive = TRUE
    /\ containerCached = TRUE
    /\ target = 0
    /\ remoteDelete = "none"
    /\ notified = 0
    /\ hyp = TRUE
    /\ pure = NoPure
    /\ cacheMu = NoThread
    /\ photoMu = [o \in Objects |-> NoThread]
    /\ threads = [t \in Threads |-> Idle]
    /\ objects = [o \in Objects |-> NotMade]
    /\ photoCache = EmptyPhotoCache
    /\ remote \in BOOLEAN
    /\ elementDeletedListener = 0

\* goroutine t moves to position pc
Goto(t, pc) == threads' = [threads EXCEPT ![t].pc = pc]

\* container.AddPhoto(name, r, opts); the name may be "" when opts gives the
\* MIME type.  An album refuses content it holds already.  Cache.Add locks
\* nothing but Cache.mu.
ThreadAddPhoto(t) ==
    /\ threads[t] = Idle
    /\ cacheMu = NoThread
    /\ Unmade # {}
    /\ ~remote \/ containerType = "playlist"
    /\ \E named \in BOOLEAN :
           objects' = [objects EXCEPT ![NextObject] =
                           UploadedObject(named, photoCache.cached = NoObject)]
    /\ photoCache' = IF photoCache.cached = NoObject
                     THEN [photoCache EXCEPT !.cached = NextObject, !.nameIndex = FALSE]
                     ELSE photoCache
    /\ remote' = TRUE
    /\ UNCHANGED <<cacheMu, photoMu, threads, lockIdle>>

\* container.Photos: Cache.All locks nothing but Cache.mu
ThreadPhotos(t) ==
    /\ threads[t] = Idle
    /\ cacheMu = NoThread
    /\ CanWalk
    /\ \E ok \in BOOLEAN :
           /\ photoCache' = walkListing(ok).c
           /\ objects' = walkListing(ok).o
    /\ UNCHANGED <<cacheMu, photoMu, threads, remote, lockIdle>>

\* a goroutine calls container.PhotosWithName
CallPhotosWithName(t) ==
    /\ threads[t] = Idle
    /\ threads' = [threads EXCEPT ![t] = [Idle EXCEPT !.op = "PhotosWithName", !.pc = "c.mu.Lock"]]
    /\ UNCHANGED <<cacheMu, photoMu, objects, photoCache, remote, lockIdle>>

\* Cache.ElementsWithName: c.mu.Lock, loadAllUnsafe, and populateNameMapUnsafe
\* up to the call of Name on the cached object
ElementsWithNameLock(t) ==
    /\ threads[t].op = "PhotosWithName"
    /\ threads[t].pc = "c.mu.Lock"
    /\ cacheMu = NoThread
    /\ CanWalk
    /\ \E ok \in BOOLEAN :
           /\ objects' = walkListing(ok).o
           /\ IF walkListing(ok).err
              THEN /\ photoCache' = walkListing(ok).c
                   /\ threads' = [threads EXCEPT ![t] = Idle]
                   /\ UNCHANGED cacheMu
              ELSE IF walkListing(ok).c.nameIndex \/ walkListing(ok).c.cached = NoObject
              THEN /\ photoCache' = [walkListing(ok).c EXCEPT !.nameIndex = TRUE]
                   /\ threads' = [threads EXCEPT ![t] = Idle]
                   /\ UNCHANGED cacheMu
              ELSE /\ photoCache' = walkListing(ok).c
                   /\ threads' = [threads EXCEPT ![t].pc = "Name.Lock",
                                                 ![t].obj = walkListing(ok).c.cached]
                   /\ cacheMu' = t
    /\ UNCHANGED <<photoMu, remote, lockIdle>>

\* photo.Name called by populateNameMapUnsafe: p.mu.Lock and the body of Name
\* up to the return or to the call of PhotoWithID
NameLock(t) ==
    /\ threads[t].pc = "Name.Lock"
    /\ photoMu[threads[t].obj] = NoThread
    /\ IF objects[threads[t].obj].name
       THEN /\ photoCache' = [photoCache EXCEPT !.nameIndex = TRUE]
            /\ cacheMu' = NoThread
            /\ threads' = [threads EXCEPT ![t] = Idle]
            /\ UNCHANGED <<photoMu, objects>>
       ELSE IF objects[threads[t].obj].nixplayID
       THEN /\ \E ok \in BOOLEAN :
                   /\ objects' = [objects EXCEPT ![threads[t].obj].name = ok]
                   /\ photoCache' = [photoCache EXCEPT !.nameIndex = ok]
            /\ cacheMu' = NoThread
            /\ threads' = [threads EXCEPT ![t] = Idle]
            /\ UNCHANGED photoMu
       ELSE /\ photoMu' = [photoMu EXCEPT ![threads[t].obj] = t]
            /\ threads' = [threads EXCEPT ![t].pc = "PhotoWithID.Lock", ![t].attempt = 1]
            /\ UNCHANGED <<cacheMu, objects, photoCache>>
    /\ UNCHANGED <<remote, lockIdle>>

\* a goroutine calls photo.URL on a photo object
CallURL(t) ==
    /\ threads[t] = Idle
    /\ \E o \in Objects :
           /\ objects[o].made
           /\ threads' = [threads EXCEPT ![t] = [Idle EXCEPT !.op = "URL", !.pc = "p.mu.Lock",
                                                             !.obj = o]]
    /\ UNCHANGED <<cacheMu, photoMu, objects, photoCache, remote, lockIdle>>

\* a goroutine calls photo.Delete on a photo object
CallDelete(t) ==
    /\ threads[t] = Idle
    /\ \E o \in Objects :
           /\ objects[o].made
           /\ threads' = [threads EXCEPT ![t] = [Idle EXCEPT !.op = "Delete", !.pc = "p.mu.Lock",
                                                             !.obj = o]]
    /\ UNCHANGED <<cacheMu, photoMu, objects, photoCache, remote, lockIdle>>

\* photo.URL and photo.Delete: p.mu.Lock and the test whether the URL or the
\* remote ID is known
PhotoLock(t) ==
    /\ threads[t].pc = "p.mu.Lock"
    /\ photoMu[threads[t].obj] = NoThread
    /\ photoMu' = [photoMu EXCEPT ![threads[t].obj] = t]
    /\ IF threads[t].op = "URL"
       THEN IF objects[threads[t].obj].url
            THEN Goto(t, "return")
            ELSE threads' = [threads EXCEPT ![t].pc = "PhotoWithID.Lock", ![t].attempt = 1]
       ELSE IF objects[threads[t].obj].nixplayID
            THEN Goto(t, "delete")
            ELSE threads' = [threads EXCEPT ![t].pc = "PhotoWithID.Lock", ![t].attempt = 1]
    /\ UNCHANGED <<cacheMu, objects, photoCache, remote, lockIdle>>

\* photo.attemptPopulatePhotoDataFromListSearch: container.PhotoWithID locks
\* Cache.mu, walks and looks the ID up; then the caller goes on, resets the
\* cache for a second attempt, or returns an error.  Name goes on with the
\* request of the picture, which gives the name or fails (named).
PhotoWithIDLock(t) ==
    /\ threads[t].pc = "PhotoWithID.Lock"
    /\ cacheMu = NoThread
    /\ CanWalk
    /\ \E ok \in BOOLEAN, named \in BOOLEAN :
           /\ photoCache' = IF threads[t].op = "PhotosWithName"
                             THEN [walkListing(ok).c EXCEPT !.nameIndex = named]
                             ELSE walkListing(ok).c
           /\ IF walkListing(ok).err
              THEN /\ objects' = walkListing(ok).o
                   /\ Goto(t, "return")
              ELSE IF /\ walkListing(ok).c.cached # NoObject
                      /\ walkListing(ok).o[walkListing(ok).c.cached].nixplayID
                      /\ walkListing(ok).o[walkListing(ok).c.cached].url
              THEN /\ objects' = [walkListing(ok).o EXCEPT
                                      ![threads[t].obj].nixplayID = TRUE,
                                      ![threads[t].obj].url = TRUE,
                                      ![threads[t].obj].name =
                                          IF threads[t].op = "PhotosWithName" THEN named ELSE @]
                   /\ Goto(t, IF threads[t].op = "Delete" THEN "delete" ELSE "return")
              ELSE /\ objects' = walkListing(ok).o
                   /\ Goto(t, IF threads[t].attempt = 1 THEN "Reset.Lock" ELSE "return")
    /\ UNCHANGED <<cacheMu, photoMu, remote, lockIdle>>

\* container.ResetCache between the two attempts of the list search
ResetLock(t) ==
    /\ threads[t].pc = "Reset.Lock"
    /\ cacheMu = NoThread
    /\ photoCache' = EmptyPhotoCache
    /\ threads' = [threads EXCEPT ![t].pc = "PhotoWithID.Lock", ![t].attempt = 2]
    /\ UNCHANGED <<cacheMu, photoMu, objects, remote, lockIdle>>

\* photo.Delete: the remote delete request, then the listeners
RemoteDelete(t) ==
    /\ threads[t].pc = "delete"
    /\ \E ok \in BOOLEAN :
           IF ~ok
           THEN /\ Goto(t, "return")
                /\ UNCHANGED remote
           ELSE /\ remote' = FALSE
                /\ IF objects[threads[t].obj].listens
                   THEN threads' = [threads EXCEPT ![t].pc = "Remove.Lock", ![t].round = 1]
                   ELSE Goto(t, "return")
    /\ UNCHANGED <<cacheMu, photoMu, objects, photoCache, lockIdle>>

\* Cache.ElementDeleted calls Cache.Remove twice
AfterRemove(t) ==
    IF threads[t].round = 1
    THEN threads' = [threads EXCEPT ![t].pc = "Remove.Lock", ![t].round = 2]
    ELSE Goto(t, "return")

\* Cache.Remove: c.mu.Lock and the body up to the return or to the call of
\* Name on the cached object
RemoveLock(t) ==
    /\ threads[t].pc = "Remove.Lock"
    /\ cacheMu = NoThread
    /\ IF photoCache.cached = NoObject
       THEN /\ AfterRemove(t)
            /\ UNCHANGED <<cacheMu, photoCache>>
       ELSE IF photoCache.nameIndex
       THEN /\ cacheMu' = t
            /\ Goto(t, "Remove.Name.Lock")
            /\ UNCHANGED photoCache
       ELSE /\ photoCache' = [photoCache EXCEPT !.cached = NoObject]
            /\ AfterRemove(t)
            /\ UNCHANGED cacheMu
    /\ UNCHANGED <<photoMu, objects, remote, lockIdle>>

\* Cache.Remove reading the Name of the cached object: p.mu.Lock of that
\* object, then the rest of Remove.  The name index is built, so
\* populateNameMapUnsafe has read the name of the cached object before.
RemoveNameLock(t) ==
    /\ threads[t].pc = "Remove.Name.Lock"
    /\ photoMu[photoCache.cached] = NoThread
    /\ objects[photoCache.cached].name
    /\ photoCache' = [photoCache EXCEPT !.cached = NoObject]
    /\ cacheMu' = NoThread
    /\ AfterRemove(t)
    /\ UNCHANGED <<photoMu, objects, remote, lockIdle>>

\* the deferred Unlock calls of the call goroutine t is in
ReturnOp(t) ==
    /\ threads[t].pc = "return"
    /\ photoMu' = [o \in Objects |-> IF photoMu[o] = t THEN NoThread ELSE photoMu[o]]
    /\ cacheMu' = IF cacheMu = t THEN NoThread ELSE cacheMu
    /\ threads' = [threads EXCEPT ![t] = Idle]
    /\ UNCHANGED <<objects, photoCache, remote, lockIdle>>

LockNext ==
    \/ \E t \in Threads : ThreadAddPhoto(t)
    \/ \E t \in Threads : ThreadPhotos(t)
    \/ \E t \in Threads : CallPhotosWithName(t)
    \/ \E t \in Threads : ElementsWithNameLock(t)
    \/ \E t \in Threads : NameLock(t)
    \/ \E t \in Threads : CallURL(t)
    \/ \E t \in Threads : CallDelete(t)
    \/ \E t \in Threads : PhotoLock(t)
    \/ \E t \in Threads : PhotoWithIDLock(t)
    \/ \E t \in Threads : ResetLock(t)
    \/ \E t \in Threads : RemoteDelete(t)
    \/ \E t \in Threads : RemoveLock(t)
    \/ \E t \in Threads : RemoveNameLock(t)
    \/ \E t \in Threads : ReturnOp(t)

LockSpec == LockInit /\ [][LockNext]_vars

\* --------------------------------------- MutexSpec: the mutex of one cache
\* One Cache[T] and the goroutines that call its public methods.  A method
\* that locks c.mu runs its body in the step that takes the mutex and stands
\* at "defer" until its deferred c.mu.Unlock has run; a goroutine that waits
\* for the mutex has not taken that step yet.  ElementDeleted and
\* AddDeletedListener lock nothing themselves: ElementDeleted stands at
\* "Remove.Lock" before each of its two Remove calls and at "range" before it
\* reads c.elementDeletedListener in between, AddDeletedListener stands at
\* "append" between reading the list and writing the longer one.  Here op and
\* err are the method whose body ran last and whether it returns an error.

\* the listeners the goroutines add to one cache
MaxListeners == 1

\* the methods that lock c.mu and defer its Unlock
LockedMethods ==
    {"All", "ElementCount", "ElementsWithName", "ElementWithUniqueName", "ElementWithID",
     "Add", "Remove", "Reset"}

\* the methods that walk the pages first
WalkingMethods ==
    {"All", "ElementCount", "ElementsWithName", "ElementWithUniqueName", "ElementWithID"}

\* the element the goroutines add, remove and report as deleted: it shares
\* its name with element 2, and its unique name is the name of element 3
OwnElements == {[id |-> 1, listed |-> FALSE]}

\* a goroutine in method o at position pc: the ID of the element the call is
\* about, the Remove call ElementDeleted is at, and the length of the list
\* AddDeletedListener read
InCall(o, pc, id, round, n) ==
    [op |-> o, pc |-> pc, obj |-> id, attempt |-> 0, round |-> round, len |-> n]

\* a method that unlocks c.mu only when it returns no error
unlockOnSuccessOnly(t, e) == IF e THEN t ELSE NoThread

\* "defer c.mu.Unlock()": the holder of c.mu once goroutine t has returned,
\* with or without an error
deferredUnlock(t, e) == NoThread

\* the body of the locked method o on cache c, with the inputs it reads: what
\* it leaves of the cache and whether it returns an error
lockedCall(o, c, src, failAt, nf, order, e, nameErr) ==
    CASE o = "All" -> cacheAll(c, src, failAt)
      [] o = "ElementCount" -> cacheElementCount(c, src, failAt)
      [] o = "ElementsWithName" -> cacheElementsWithNameErr(c, src, failAt, <<>>, nf)
      [] o = "ElementWithUniqueName" -> cacheElementWithUniqueNameErr(c, src, failAt, <<>>, order, nf)
      [] o = "ElementWithID" -> cacheElementWithID(c, src, failAt, 0)
      [] o = "Add" -> [c |-> cacheAdd(c, e), err |-> FALSE]
      [] o = "Remove" -> cacheRemoveErr(c, e, nameErr)
      [] o = "Reset" -> [c |-> resetUnsafe(c), err |-> FALSE]

mutexIdle == <<pages, requested, result, shares, histVars, containerType, photoCount, held,
               containerLive, containerCached, target, remoteDelete, hyp, uploadVars, pure,
               photoMu, objects, photoCache, remote>>

MutexInit ==
    /\ pages = Paginate(Listing(MaxID))
    /\ foundAll = FALSE
    /\ elements = <<>>
    /\ nameToElements = NilMap
    /\ uniqueNameToElement = NilMap
    /\ idToElement = EmptyMap
    /\ op = "NewCache"
    /\ err = FALSE
    /\ requested = <<>>
    /\ result = <<>>
    /\ shares = NoShare
    /\ lastAll = NoLastAll
    /\ resetFrom = "none"
    /\ NoContainer

\* goroutine t calls a method that locks c.mu: c.mu.Lock and the body
CallLocked(t) ==
    /\ threads[t] = Idle
    /\ cacheMu = NoThread
    /\ \E o \in LockedMethods :
        \E failAt \in (IF o \in WalkingMethods THEN FailAts ELSE {NoFail}) :
        \E nf \in (CASE o = "ElementsWithName" ->
                            AfterWalk(failAt, NameFails(loadAllUnsafe(Cache, pages, NoFail).c))
                     [] o = "ElementWithUniqueName" ->
                            AfterWalk(failAt, UniqueNameFails(loadAllUnsafe(Cache, pages, NoFail).c))
                     [] OTHER -> {NoNameFail}) :
        \E order \in (IF o = "ElementWithUniqueName" THEN RangeOrders(Cache, pages, failAt)
                      ELSE {<<>>}) :
        \E e \in OwnElements :
        \E nameErr \in (IF o = "Remove" THEN BOOLEAN ELSE {FALSE}) :
            /\ SetCache(lockedCall(o, Cache, pages, failAt, nf, order, e, nameErr).c)
            /\ op' = o
            /\ err' = lockedCall(o, Cache, pages, failAt, nf, order, e, nameErr).err
    /\ threads' = [threads EXCEPT ![t] = InCall("locked", "defer", NoObject, 0, 0)]
    /\ cacheMu' = t
    /\ UNCHANGED <<notified, elementDeletedListener, mutexIdle>>

\* goroutine t calls Cache.ElementDeleted(e)
CallElementDeleted(t) ==
    /\ threads[t] = Idle
    /\ \E e \in OwnElements :
           threads' = [threads EXCEPT ![t] = InCall("ElementDeleted", "Remove.Lock", e.id, 1, 0)]
    /\ UNCHANGED <<cacheVars, cacheMu, op, err, notified, elementDeletedListener, mutexIdle>>

\* one of the two Remove calls of ElementDeleted: c.mu.Lock and the body
RemoveOfElementDeleted(t) ==
    /\ threads[t].pc = "Remove.Lock"
    /\ cacheMu = NoThread
    /\ \E nameErr \in BOOLEAN :
           /\ SetCache(cacheRemoveErr(Cache, [id |-> threads[t].obj, listed |-> FALSE], nameErr).c)
           /\ err' = cacheRemoveErr(Cache, [id |-> threads[t].obj, listed |-> FALSE], nameErr).err
    /\ op' = "Remove"
    /\ threads' = [threads EXCEPT ![t].pc = "defer"]
    /\ cacheMu' = t
    /\ UNCHANGED <<notified, elementDeletedListener, mutexIdle>>

\* the return of a locked method: the deferred Unlock.  A public method has
\* returned to its caller; ElementDeleted goes on after Remove, to the
\* listeners after the first and to its own return after the second, and
\* returns the error of a Remove right away.
DeferredUnlock(t) ==
    /\ threads[t].pc = "defer"
    /\ cacheMu' = deferredUnlock(t, err)
    /\ threads' = IF threads[t].op = "ElementDeleted" /\ threads[t].round = 1 /\ ~err
                  THEN [threads EXCEPT ![t].pc = "range"]
                  ELSE [threads EXCEPT ![t] = Idle]
    /\ UNCHANGED <<cacheVars, op, err, notified, elementDeletedListener, mutexIdle>>

\* ElementDeleted, "for _, l := range c.elementDeletedListener": the list is
\* read without c.mu.  Next to a goroutine that is appending to the list, the
\* read gives the list as it is or the list that goroutine is storing.
RangeListeners(t) ==
    /\ threads[t].pc = "range"
    /\ notified' \in {elementDeletedListener}
                     \cup {threads[u].len + 1 : u \in {x \in Threads \ {t} : threads[x].pc = "append"}}
    /\ threads' = [threads EXCEPT ![t].pc = "Remove.Lock", ![t].round = 2]
    /\ UNCHANGED <<cacheVars, cacheMu, op, err, elementDeletedListener, mutexIdle>>

\* goroutine t calls Cache.AddDeletedListener: append reads the list,
\* without c.mu
CallAddDeletedListener(t) ==
    /\ threads[t] = Idle
    /\ elementDeletedListener < MaxListeners
    /\ threads' = [threads EXCEPT ![t] =
           InCall("AddDeletedListener", "append", NoObject, 0, elementDeletedListener)]
    /\ UNCHANGED <<cacheVars, cacheMu, op, err, notified, elementDeletedListener, mutexIdle>>

\* AddDeletedListener stores the list that is one longer than the list it
\* read, without c.mu
AppendListener(t) ==
    /\ threads[t].pc = "append"
    /\ elementDeletedListener' = threads[t].len + 1
    /\ threads' = [threads EXCEPT ![t] = Idle]
    /\ UNCHANGED <<cacheVars, cacheMu, op, err, notified, mutexIdle>>

MutexNext ==
    \/ \E t \in Threads : CallLocked(t)
    \/ \E t \in Threads : CallElementDeleted(t)
    \/ \E t \in Threads : RemoveOfElementDeleted(t)
    \/ \E t \in Threads : DeferredUnlock(t)
    \/ \E t \in Threads : RangeListeners(t)
    \/ \E t \in Threads : CallAddDeletedListener(t)
    \/ \E t \in Threads : AppendListener(t)

MutexSpec == MutexInit /\ [][MutexNext]_vars

\* ------------------------------------------------------ vocabulary of claims
NoDuplicateIDs(s) == \A i, j \in 1..Len(s) : s[i].id = s[j].id => i = j

\* the index k of the first empty page of a source
FirstEmptyPage(src) ==
    CHOOSE k \in 0..Len(src) :
        /\ elementPageFunc(src, k) = <<>>
        /\ \A j \in 0..(k - 1) : elementPageFunc(src, j) # <<>>

\* the IDs on pages 0..k-1
IDsOnPages(src, k) == UNION {IDsOf(elementPageFunc(src, j)) : j \in 0..(k - 1)}

\* <<0, 1, ..., k>>
PagesUpTo(k) == [i \in 1..(k + 1) |-> i - 1]

\* s lists every member of S exactly once and nothing else
ListsExactlyOnce(s, S) == Range(s) = S /\ Len(s) = Cardinality(S)

\* the live entities a lookup made now with no failing page request answers from
LiveNow == Range(loadAllUnsafe(Cache, pages, NoFail).c.elements)

LiveWithName(n) == {e \in LiveNow : Name(e) = n}

\* what the lookups made now, with no failing page request, answer
AnswerAll == cacheAll(Cache, pages, NoFail)
AnswerByName(n) == cacheElementsWithName(Cache, pages, NoFail, n)
AnswerByID(id) == cacheElementWithID(Cache, pages, NoFail, id)
AnswerByUniqueName(n, order) == cacheElementWithUniqueName(Cache, pages, NoFail, n, order)
OrdersNow == RangeOrders(Cache, pages, NoFail)

\* no lookup made now answers with the entity of this ID
AbsentFromEveryLookup(id) ==
    /\ id \notin IDsOf(AnswerAll.result)
    /\ AnswerByID(id).result = Empty
    /\ \A n \in Names : id \notin IDsOf(AnswerByName(n).result)
    /\ \A n \in Names : \A order \in OrdersNow : id \notin IDsOf(AnswerByUniqueName(n, order).result)

\* the IDs a step took out of the ID index
RemovedIDs == (DOMAIN idToElement) \ (DOMAIN idToElement')

\* C1: after Remove(e) has returned without error, no lookup answers with e
\* any more: not ElementWithID, not ElementsWithName, not
\* ElementWithUniqueName, not All (lookups made on the fully loaded cache, so
\* that no page-walk fetches e anew).
C1_RemovedAbsentFromEveryLookup ==
    [][(op' = "Remove" /\ ~err' /\ foundAll')
          => \A id \in RemovedIDs : AbsentFromEveryLookup(id)']_vars

\* C2: ElementsWithName(N) answers with every live entity named N exactly
\* once and with nothing else, whatever calls came before.
C2_NameIndexExact ==
    \A n \in Names :
        /\ ~AnswerByName(n).err
        /\ ListsExactlyOnce(AnswerByName(n).result, LiveWithName(n))

\* the unique name an entity resolves to among the live entities
ResolvedName(e) == IF Cardinality(LiveWithName(Name(e))) = 1 THEN Name(e) ELSE GenerateUniqueName(e)

\* no two live entities resolve to the same unique name
NoNameCollision == \A e1, e2 \in LiveNow : e1 # e2 => ResolvedName(e1) # ResolvedName(e2)

\* C3: a live entity that alone has its name N is what
\* ElementWithUniqueName(N) answers; live entities that share N have pairwise
\* distinct unique names other than N, each is found under its own, and
\* ElementWithUniqueName(N) answers with the empty value.  (Stated for the
\* caches whose live entities resolve to different unique names.)
C3_UniqueNameRule ==
    NoNameCollision =>
        \A order \in OrdersNow : \A e \in LiveNow :
            LET n == Name(e)
                shared == LiveWithName(n)
            IN IF Cardinality(shared) = 1
               THEN /\ ~AnswerByUniqueName(n, order).err
                    /\ AnswerByUniqueName(n, order).result = <<e>>
               ELSE /\ ~AnswerByUniqueName(n, order).err
                    /\ AnswerByUniqueName(n, order).result = Empty
                    /\ GenerateUniqueName(e) # n
                    /\ \A e2 \in shared \ {e} : GenerateUniqueName(e2) # GenerateUniqueName(e)
                    /\ AnswerByUniqueName(GenerateUniqueName(e), order).result = <<e>>

\* C4: ElementWithUniqueName does not succeed while two distinct live
\* entities resolve to the same unique name, in whatever order the names are
\* ranged over.
C4_CollisionIsAnError ==
    (op = "ElementWithUniqueName" /\ ~err) => NoNameCollision

\* C5: when a Remove leaves exactly one of the entities that shared a name N,
\* ElementsWithName(N) answers with the survivor alone and
\* ElementWithUniqueName(N) answers with the survivor.
C5_SurvivorGetsPlainName ==
    [][(op' = "Remove" /\ ~err' /\ foundAll')
          => \A id \in RemovedIDs : \A n \in Names : \A e \in Element :
                (n = Name(idToElement[id]) /\ LiveWithName(n)' = {e})
                    => /\ AnswerByName(n)'.result = <<e>>
                       /\ \A order \in OrdersNow' :
                             /\ ~AnswerByUniqueName(n, order)'.err
                             /\ AnswerByUniqueName(n, order)'.result = <<e>>]_vars

C7_SecondAllFromCache ==
    [][(lastAll.n >= 1 /\ op' = "All")
          => /\ ~err'
             /\ requested' = <<>>
             /\ Range(result') = Range(lastAll.result)]_vars

\* a second All in a row has answered with elements
C7_Witness ==
    /\ op = "All" /\ ~err
    /\ lastAll.n = 2
    /\ requested = <<>>
    /\ Len(result) >= 2

\* C8: the All() right after a Reset() requests page 0 first and, when no
\* request fails, walks the pages up to the first empty one and answers with
\* the entities of that walk only, also when the cache was fully loaded
\* before the Reset.
C8_ResetForcesWalk ==
    (op = "All" /\ resetFrom # "none")
        => /\ requested # <<>>
           /\ requested[1] = 0
           /\ ~err => /\ requested = PagesUpTo(FirstEmptyPage(pages))
                      /\ IDsOf(result) = IDsOnPages(pages, FirstEmptyPage(pages))

\* the All right after the Reset of a fully loaded cache has walked the pages
C8_Witness ==
    /\ op = "All" /\ ~err
    /\ resetFrom = "loaded"
    /\ Len(requested) >= 2
    /\ Len(result) >= 1

\* C9: when the remote delete request of a photo Delete or a container Delete
\* fails or is answered with a non-success status, the call returns an error,
\* notifies no listener (the photo count stays as it was), and the cache that
\* held the entity before the call holds it after the call.
C9_NotifyOnlyAfterRemoteSuccess ==
    [][(op' \in {"PhotoDelete", "ContainerDelete"} /\ remoteDelete' = "failed")
          => /\ err'
             /\ notified' = 0
             /\ photoCount' = photoCount
             /\ (op' = "PhotoDelete" /\ target' \in DOMAIN idToElement)
                    => target' \in DOMAIN idToElement'
             /\ (op' = "ContainerDelete" /\ containerCached) => containerCached']_vars

\* the remote delete of a photo that the cache holds and listens to has failed
C9_Witness ==
    /\ op = "PhotoDelete" /\ remoteDelete = "failed"
    /\ err /\ notified = 0
    /\ target \in DOMAIN idToElement
    /\ \E h \in Handles : h.id = target /\ h.reg

\* what PhotoCount() and Photos() answer now when no page request fails
AnswerPhotoCount == containerPhotoCount(Cache, photoCount, pages, NoFail).count
AnswerPhotos == cacheAll(Cache, pages, NoFail).result

\* C10: after successful AddPhoto calls with pairwise different content,
\* successful photo Delete calls and ResetCache calls on a container, PhotoCount()
\* equals the number of photos Photos() returns.
C10_PhotoCountMatchesPhotos ==
    (containerLive /\ hyp) => AnswerPhotoCount = Len(AnswerPhotos)

\* the monitor's answer is status 400 with the body "Error: image-exists"
ReportsDuplicate(resp) ==
    ~resp.doErr /\ resp.status = 400 /\ ~resp.readErr /\ resp.body = "Error: image-exists"

\* the monitor step of call p has been answered
Monitored(p) == "monitorUpload" \in Range(calls[p].issued)

\* C11: AddPhoto into a playlist succeeds when the upload monitor reports
\* duplicate content (status 400 with the body "Error: image-exists"): the call
\* returns a photo and no error, and the photo is in the playlist's cache.
C11_PlaylistDuplicateSucceeds ==
    \A p \in Procs :
        (containerType = "playlist" /\ Monitored(p) /\ ReportsDuplicate(calls[p].monitor)
            /\ calls[p].pc = "returned")
          => /\ calls[p].err = "none"
             /\ calls[p].photo
             /\ Cardinality({i \in 1..Len(elements) : elements[i].id = p}) = 1
             /\ p \in DOMAIN idToElement

\* an upload into a playlist has returned its photo after the monitor reported
\* duplicate content
C11_Witness ==
    \E p \in Procs :
        /\ containerType = "playlist"
        /\ Monitored(p) /\ ReportsDuplicate(calls[p].monitor)
        /\ calls[p].pc = "returned" /\ calls[p].photo
        /\ p \in IDsOf(elements)

\* the monitor step failed: no answer, or an answer that is no success status
MonitorFailed(resp) == resp.doErr \/ resp.status < 200 \/ resp.status >= 300

\* C12: every monitor failure other than the playlist duplicate case is
\* fatal: when the monitor step fails for another reason, or reports duplicate
\* content while the target is an album, AddPhoto returns an error and no
\* photo, and the call changes neither the photo cache nor the photo count.
C12_OtherMonitorFailuresFatal ==
    [][\A p \in Procs :
          (calls[p].pc = "monitorUpload" /\ Monitored(p)'
              /\ MonitorFailed(calls'[p].monitor)
              /\ ~(containerType = "playlist" /\ ReportsDuplicate(calls'[p].monitor)))
            => /\ calls'[p].pc = "returned"
               /\ calls'[p].err # "none"
               /\ ~calls'[p].photo
               /\ UNCHANGED <<cacheVars, photoCount>>]_vars

\* an upload into an album has returned the error of a monitor that reported
\* duplicate content, and the cache does not hold its photo
C12_Witness ==
    \E p \in Procs :
        /\ containerType = "album"
        /\ Monitored(p) /\ ReportsDuplicate(calls[p].monitor)
        /\ calls[p].pc = "returned" /\ calls[p].err = "duplicate" /\ ~calls[p].photo
        /\ p \notin IDsOf(elements)

\* s is a prefix of t
IsPrefix(s, t) == Len(s) <= Len(t) /\ \A i \in 1..Len(s) : s[i] = t[i]

\* the last remote step call p issued failed
StepFailed(p) ==
    /\ calls[p].issued # <<>>
    /\ IF Monitored(p) THEN MonitorFailed(calls[p].monitor) ELSE calls[p].err # "none"

\* call p has ended with an error, without a photo and without an Add
Aborted(p) == calls[p].pc = "returned" /\ calls[p].err # "none" /\ ~calls[p].photo

\* C13 as stated: one AddPhoto call issues the remote steps in the order
\* token negotiation, upload registration, byte transfer, monitor check, each
\* at most once; when a step fails, no later step is issued, the failed step
\* is not retried, and nothing is added to the cache.
C13_AnyFailedStepAborts ==
    \A p \in Procs :
        /\ IsPrefix(calls[p].issued, UploadSteps)
        /\ StepFailed(p) => Aborted(p)

\* C13, amended: as above, but a monitor check that fails with the report of
\* duplicate content does not abort an upload into a playlist.
C13_FailedStepAborts ==
    \A p \in Procs :
        /\ IsPrefix(calls[p].issued, UploadSteps)
        /\ (StepFailed(p)
              /\ ~(containerType = "playlist" /\ Monitored(p) /\ ReportsDuplicate(calls[p].monitor)))
             => Aborted(p)

\* the byte transfer of a call has failed after two steps that succeeded
C13_Witness ==
    \E p \in Procs :
        /\ calls[p].issued = <<"getUploadToken", "uploadNixplay", "uploadS3">>
        /\ calls[p].cancelAt = "none"
        /\ StepFailed(p) /\ Aborted(p)

\* the context of call p was cancelled during a step that has been answered
CancelledInFlight(p) ==
    calls[p].cancelAt # "none" /\ calls[p].cancelAt \in Range(calls[p].issued)

\* C14: cancelling the caller's context during a page-walk or during an
\* upload step (token negotiation, registration, transfer, monitor check)
\* aborts that remote call and makes the operation return a cancellation
\* error.
C14_CancellationAborts ==
    /\ \A p \in Procs :
          CancelledInFlight(p) => (calls[p].pc = "returned" /\ calls[p].err = "cancelled")
    /\ walk.cancelAt # NoFail => (err /\ walk.cancelled)

\* the number of entries of the cache with this ID
Entries(id) == Cardinality({i \in 1..Len(elements) : elements[i].id = id})

\* call p has added its photo to the cache
Added(p) == calls[p].pc = "photoCount" \/ (calls[p].pc = "returned" /\ calls[p].err = "none")

\* C16: when several AddPhoto calls with pairwise different content run
\* concurrently on one container, then under every interleaving each call
\* that succeeds has its photo in the container's cache exactly once, from
\* its Add on, and the cached photos have pairwise different IDs.
C16_ConcurrentAddsEachOnce ==
    /\ NoDuplicateIDs(elements)
    /\ \A p \in Procs :
          Added(p) => (Entries(p) = 1 /\ p \in DOMAIN idToElement)
    /\ \A p \in Procs :
          (calls[p].pc = "returned" /\ calls[p].err = "none") => calls[p].photo

\* all calls are under way at the same time, each between its Add and its
\* increment of the count, and the cache holds the photo of each once
C16_Witness ==
    /\ \A p \in Procs : calls[p].pc = "photoCount" /\ Entries(p) = 1
    /\ Len(elements) = MaxPhotos

\* the operations whose only error is that of a page request
WalkOnlyOps == {"All", "ElementsWithName", "ElementWithID"}

\* C15: when a page request fails during a page-walk, the operation returns
\* the error, the elements of the pages fetched so far are in the cache next
\* to what it held before, and the cache stays not fully loaded; an All()
\* that then walks the pages without meeting an error returns every element
\* of the page source exactly once.
C15_FailedWalkKeepsPages ==
    [][/\ (op' \in WalkOnlyOps /\ err')
            => /\ requested' # <<>>
               /\ result' = <<>>
               /\ ~foundAll'
               /\ IsPrefix(elements, elements')
               /\ IDsOf(elements') = IDsOf(elements) \cup IDsOnPages(pages, Len(requested') - 1)
       /\ (op' = "All" /\ ~err' /\ ~foundAll)
            => /\ foundAll'
               /\ IDsOnPages(pages, FirstEmptyPage(pages)) \subseteq IDsOf(result')
               /\ NoDuplicateIDs(result')]_vars

\* an All has returned the error of the request for a later page, and the
\* elements of the pages before it are in the cache
C15_Witness ==
    /\ op = "All" /\ err
    /\ Len(requested) >= 2
    /\ ~foundAll
    /\ Len(elements) >= PageLen
    /\ IDsOnPages(pages, Len(requested) - 1) \subseteq IDsOf(elements)

\* the page of the first request that was answered with an empty page is the
\* last one requested
EndsAtEmptyPage(reqs) ==
    /\ reqs # <<>>
    /\ elementPageFunc(pages, reqs[Len(reqs)]) = <<>>

\* the name index lists every cached element under its name
NameIndexComplete(c) ==
    /\ ~c.nameToElements.nil
    /\ \A i \in 1..Len(c.elements) :
          c.elements[i] \in Range(MapGetSlice(c.nameToElements.m, Name(c.elements[i])))

\* C17: All, ElementsWithName, ElementWithUniqueName and ElementWithID never
\* answer successfully from a partially loaded cache: whenever one of them
\* returns without error, an empty page has been observed since the last
\* Reset (the cache is only marked fully loaded by the walk that sees the
\* empty page, and a Reset takes the mark away), and the answer is computed
\* from a cache that holds every element the source lists, through indexes
\* that leave out none of the cached elements.
C17_NoAnswerFromPartialCache ==
    [][/\ (foundAll' /\ ~foundAll) => EndsAtEmptyPage(requested')
       /\ op' = "Reset" => ~foundAll'
       /\ (op' \in {"All", "ElementsWithName", "ElementWithUniqueName", "ElementWithID"} /\ ~err')
            => /\ foundAll'
               /\ ~foundAll => IDsOnPages(pages, FirstEmptyPage(pages)) \subseteq DOMAIN idToElement'
               /\ IDsOf(elements') = DOMAIN idToElement'
               /\ op' = "All" => Range(result') = Range(elements')
               /\ op' \in {"ElementsWithName", "ElementWithUniqueName"} => NameIndexComplete(Cache')]_vars

\* ElementWithID has answered after its own walk over two pages of elements
C17_Witness ==
    /\ op = "ElementWithID" /\ ~err
    /\ foundAll
    /\ Len(requested) >= 3
    /\ EndsAtEmptyPage(requested)

\* C18: Add(e) when an element with e's ID is already cached is a no-op: the
\* element list, the ID index, the load state and the object originally
\* cached under that ID all stay as they were (and the name indexes with
\* them), so that adding the same ID any number of times leaves exactly one
\* entry.
C18_AddOfCachedIDIsNoOp ==
    [][op' = "Add"
          => /\ (DOMAIN idToElement' \subseteq DOMAIN idToElement)
                  => /\ elements' = elements
                     /\ idToElement' = idToElement
                     /\ foundAll' = foundAll
                     /\ nameToElements' = nameToElements
                     /\ uniqueNameToElement' = uniqueNameToElement
             /\ NoDuplicateIDs(elements')
             /\ IDsOf(elements') = DOMAIN idToElement']_vars

\* an Add has returned and the name index built before it is still there:
\* the ID was cached, and the element a walk listed under it still is
C18_Witness ==
    /\ op = "Add"
    /\ ~nameToElements.nil
    /\ foundAll
    /\ \E i \in 1..Len(elements) : elements[i].listed

\* the IDs the source lists on more than one page up to its first empty page
RepeatedAcrossPages(src) ==
    {id \in IDs : \E j, k \in 0..(FirstEmptyPage(src) - 1) :
        j # k /\ id \in IDsOf(elementPageFunc(src, j)) /\ id \in IDsOf(elementPageFunc(src, k))}

\* C19: the page-walk de-duplicates by ID: when the same ID appears on
\* several pages, twice on one page, or was already inserted by Add, the
\* cache holds exactly one entry for that ID and All() returns it once.
C19_WalkDeduplicatesByID ==
    /\ NoDuplicateIDs(elements)
    /\ IDsOf(elements) = DOMAIN idToElement
    /\ (op = "All" /\ ~err)
          => /\ NoDuplicateIDs(result)
             /\ IDsOf(result) = DOMAIN idToElement
             /\ requested # <<>> => IDsOnPages(pages, FirstEmptyPage(pages)) \subseteq IDsOf(result)

\* an All has walked a source that lists an ID on two pages, after an Add
\* had inserted an element under an ID the source lists
C19_Witness ==
    /\ op = "All" /\ ~err /\ requested # <<>>
    /\ RepeatedAcrossPages(pages) # {}
    /\ \E i \in 1..Len(result) :
          ~result[i].listed /\ result[i].id \in IDsOnPages(pages, FirstEmptyPage(pages))

\* the IDs and names a lookup made now matches nothing for
UnknownIDs == (0..(MaxID + 1)) \ {e.id : e \in LiveNow}
UnknownNames == {n \in Names : LiveWithName(n) = {}}
UnknownUniqueNames == {n \in Names : \A e \in LiveNow : ResolvedName(e) # n}

\* C20: a lookup that matches nothing is not an error: after a successful
\* page-walk, ElementWithID for an unknown ID and ElementWithUniqueName for an
\* unknown name return the empty value with a nil error, and ElementsWithName
\* for an unknown name returns an empty list with a nil error.  (For
\* ElementWithUniqueName: stated for the caches whose live entities resolve to
\* different unique names.)
C20_MissIsNotAnError ==
    foundAll =>
        /\ \A id \in UnknownIDs :
              ~AnswerByID(id).err /\ AnswerByID(id).result = Empty
        /\ \A n \in UnknownNames :
              ~AnswerByName(n).err /\ AnswerByName(n).result = <<>>
        /\ NoNameCollision =>
              \A n \in UnknownUniqueNames : \A order \in OrdersNow :
                  ~AnswerByUniqueName(n, order).err /\ AnswerByUniqueName(n, order).result = Empty

\* C21: when reading the cached copy's Name fails during Remove while the
\* name index is built, Remove returns that error and the cache is fully
\* reset (no elements, empty ID index, both name indexes nil, not fully
\* loaded), so that the next All() walks the pages from page 0.
C21_NameErrorResetsCache ==
    [][(op' = "Remove" /\ err')
          => /\ ~nameToElements.nil
             /\ elements' = <<>>
             /\ idToElement' = EmptyMap
             /\ nameToElements' = NilMap
             /\ uniqueNameToElement' = NilMap
             /\ ~foundAll'
             /\ cacheAll(Cache', pages, NoFail).requested = PagesUpTo(FirstEmptyPage(pages))
             /\ IDsOf(cacheAll(Cache', pages, NoFail).result)
                    = IDsOnPages(pages, FirstEmptyPage(pages))]_vars

\* a Remove has returned an error and left an empty cache in front of a
\* source of two pages of elements
C21_Witness ==
    /\ op = "Remove" /\ err
    /\ elements = <<>> /\ ~foundAll
    /\ FirstEmptyPage(pages) >= 2

\* the text the service gives for the photo is a hexadecimal text of the
\* hash of the bytes that were uploaded
ListingSuppliesHash == pure.text \in EncodedTexts(pure.hash)

\* C22: when the listing of a container supplies the content hash of an
\* uploaded photo, as a field or inside its URL, the photo object the page
\* walk builds has the ID of the photo object AddPhoto put in the cache,
\* which is the digest of the container ID followed by the content hash; an
\* album listing that supplies the hash always converts; and the walk after
\* the upload leaves exactly one cache entry for the photo.  (addPhoto
\* returns the hash it computed also when monitorUpload ended with
\* errDuplicateImage, so AddPhoto builds the same object in that case.)
C22_UploadAndListingAgreeOnID ==
    (pure.step = "listed" /\ ListingSuppliesHash)
        => /\ pure.k1.containerType = "album" => pure.ls.made
           /\ pure.ls.made
                => /\ pure.up1.made
                   /\ pure.up1.id = pure.ls.id
                   /\ pure.ls.id = SHA256(<<pure.c1>> \o pure.hash)
                   /\ Len(elements) = 1
                   /\ elements[1].id = pure.up1.id

\* a playlist listed the uploaded photo with its hash in upper case in the URL
C22_Witness ==
    /\ pure.step = "listed"
    /\ ListingSuppliesHash
    /\ pure.k1.containerType = "playlist"
    /\ pure.ls.made
    /\ \E i \in 1..Len(pure.text) : pure.text[i] = "A"
    /\ Len(elements) = 1

\* the characters that are hexadecimal digits
HexDigitChars == {"1", "a", "A"}

\* the text of a URL starts with the digits of a content hash
StartsWithHash(t) ==
    /\ Len(t) >= 2 * md5Size
    /\ \A i \in 1..(2 * md5Size) : t[i] \in HexDigitChars

\* the photo objects built so far
PhotoObjects(s) == {s.up1, s.up2, s.ls}

\* C23: a playlist listing gives no content hash; when it gives no URL
\* either, or a URL whose text does not start with the digits of a hash,
\* the construction of the photo returns an error and no photo, and the walk
\* adds nothing to the cache.  Every photo object that exists has a content
\* hash of full length, and no later step changes the hash of an existing
\* photo object.
C23_NoPhotoWithoutHash ==
    [][/\ (pure'.step = "listed" /\ pure'.k1.containerType = "playlist"
             /\ (pure'.url = NoURL \/ ~StartsWithHash(pure'.url.text)))
          => /\ ~pure'.ls.made
             /\ pure'.ls.err # "none"
             /\ err'
             /\ elements' = elements
       /\ \A p \in PhotoObjects(pure') : p.made => Len(p.md5Hash) = md5Size
       /\ pure.up1.made => pure'.up1.made /\ pure'.up1.md5Hash = pure.up1.md5Hash
       /\ pure.up2.made => pure'.up2.made /\ pure'.up2.md5Hash = pure.up2.md5Hash
       /\ pure.ls.made => pure'.ls.made /\ pure'.ls.md5Hash = pure.ls.md5Hash]_vars

\* a playlist listed a photo with a URL that holds no hash, and the
\* construction failed
C23_Witness ==
    /\ pure.step = "listed"
    /\ pure.k1.containerType = "playlist"
    /\ pure.url # NoURL
    /\ ~StartsWithHash(pure.url.text)
    /\ ~pure.ls.made
    /\ err

\* C24: an Add requests no page, returns no error and leaves foundAll as it
\* was; after an Add on a cache that is not fully loaded, an All whose page
\* requests succeed requests the pages from page 0 up to the first empty one
\* and answers with the cached elements, the added one among them, followed
\* by the ones the pages list.
C24_AddKeepsLoadState ==
    [][op' = "Add"
          => /\ requested' = <<>>
             /\ ~err'
             /\ foundAll' = foundAll
             /\ ~foundAll
                  => /\ cacheAll(Cache', pages, NoFail).requested = PagesUpTo(FirstEmptyPage(pages))
                     /\ IsPrefix(elements', cacheAll(Cache', pages, NoFail).result)
                     /\ IDsOf(cacheAll(Cache', pages, NoFail).result)
                            = IDsOf(elements') \cup IDsOnPages(pages, FirstEmptyPage(pages))
                     /\ Len(elements') > Len(elements)
                            => elements'[Len(elements')]
                                   \in Range(cacheAll(Cache', pages, NoFail).result)]_vars

\* an Add put a new element into a cache that has requested no page yet and
\* whose source lists other elements on two pages
C24_Witness ==
    /\ op = "Add"
    /\ ~foundAll
    /\ Len(elements) = 1
    /\ ~elements[1].listed
    /\ FirstEmptyPage(pages) >= 2
    /\ elements[1].id \notin IDsOnPages(pages, FirstEmptyPage(pages))

\* C25: when the caller of All or of ElementsWithName swaps, overwrites or
\* drops entries of the list it was returned, the cache stays as it was, and
\* so does what All, ElementsWithName and ElementWithID return next, for
\* every name, every ID and every failing page request.
C25_ReturnedListIsACopy ==
    [][op' = "CallerWrites"
          => /\ Cache' = Cache
             /\ \A failAt \in FailAts :
                    /\ cacheAll(Cache', pages, failAt) = cacheAll(Cache, pages, failAt)
                    /\ \A n \in Names :
                           cacheElementsWithName(Cache', pages, failAt, n)
                               = cacheElementsWithName(Cache, pages, failAt, n)
                    /\ \A id \in IDs :
                           cacheElementWithID(Cache', pages, failAt, id)
                               = cacheElementWithID(Cache, pages, failAt, id)]_vars

\* the caller has rewritten the list it was returned by a fully loaded
\* cache that holds at least two elements, two of them under one name
C25_Witness ==
    /\ op = "CallerWrites"
    /\ foundAll
    /\ Len(elements) >= 2
    /\ ~nameToElements.nil
    /\ \E n \in Names : Len(MapGetSlice(nameToElements.m, n)) >= 2

\* C26: two containers that differ in kind or in remote numeric ID have
\* different IDs, and the photo objects of one content hash added to two
\* such containers have different IDs.
C26_IDsDifferAcrossContainers ==
    (pure.step \in {"containers", "added", "listed", "populated"} /\ pure.k1 # pure.k2)
        => /\ pure.c1 # pure.c2
           /\ pure.step # "containers"
                => /\ pure.up1.made /\ pure.up2.made
                   /\ pure.up1.md5Hash = pure.up2.md5Hash
                   /\ pure.up1.id # pure.up2.id

\* one content was added to an album and to a playlist of the same remote
\* numeric ID
C26_Witness ==
    /\ pure.step = "added"
    /\ pure.k1.containerType = "album"
    /\ pure.k2.containerType = "playlist"
    /\ pure.k1.nixplayID = pure.k2.nixplayID
    /\ pure.up1.made /\ pure.up2.made

\* C27: parsing a content hash from a text returns no error exactly when the
\* text has two characters per byte of a hash (32 for the 16 bytes of MD5)
\* and all of them are hexadecimal digits, in either case; the hash is then
\* the one whose hexadecimal texts the text belongs to.  Any other length
\* and any other character give an error.
C27_ParsesExactlyHexOfFullLength ==
    pure.step = "parsed"
        => /\ pure.parsed.err = "none"
                <=> /\ Len(pure.text) = 2 * md5Size
                    /\ \A i \in 1..Len(pure.text) : pure.text[i] \in HexDigitChars
           /\ pure.parsed.err = "none"
                => /\ Len(pure.parsed.hash) = md5Size
                   /\ pure.text \in EncodedTexts(pure.parsed.hash)

\* a text of full length with an upper-case digit was parsed without error
C27_Witness ==
    /\ pure.step = "parsed"
    /\ pure.parsed.err = "none"
    /\ \E i \in 1..Len(pure.text) : pure.text[i] = "A"
    /\ \E i \in 1..Len(pure.text) : pure.text[i] # "A"

\* goroutine t stands before the Lock of Cache.mu
WantsCacheMu(t) == threads[t].pc \in {"c.mu.Lock", "PhotoWithID.Lock", "Reset.Lock", "Remove.Lock"}

\* goroutine t stands before the Lock of the photo.mu of object o
WantsPhotoMu(t, o) ==
    \/ threads[t].pc \in {"p.mu.Lock", "Name.Lock"} /\ threads[t].obj = o
    \/ threads[t].pc = "Remove.Name.Lock" /\ photoCache.cached = o

\* C28: a goroutine in photo.Delete, called on the photo object the cache
\* holds while the name index is built, never stands before the Lock of a
\* photo mutex that it holds itself, where it would wait forever.
C28_DeleteDoesNotWaitForItself ==
    \A t \in Threads :
        ~(/\ threads[t].op = "Delete"
          /\ threads[t].pc = "Remove.Name.Lock"
          /\ photoCache.nameIndex
          /\ photoCache.cached = threads[t].obj
          /\ photoMu[threads[t].obj] = t)

\* C29: no two goroutines wait for each other, one holding the mutex of a
\* photo object and standing before the Lock of Cache.mu, the other holding
\* Cache.mu and standing before the Lock of the mutex of that photo object.
C29_NoLockOrderDeadlock ==
    \A t, u \in Threads :
        \A o \in Objects :
            ~(/\ t # u
              /\ photoMu[o] = t /\ WantsCacheMu(t) /\ cacheMu = u
              /\ WantsPhotoMu(u, o))

\* C30: a goroutine that builds the name index, holding Cache.mu, never
\* stands before a Lock of that same Cache.mu, where it would wait forever.
C30_NameIndexBuildDoesNotReenterCache ==
    \A t \in Threads :
        ~(/\ threads[t].op = "PhotosWithName"
          /\ cacheMu = t
          /\ WantsCacheMu(t))

\* a step in which a successful photo.Delete notifies its listeners about a
\* photo the cache does not hold (the handle knows its Nixplay ID, so Delete
\* itself does not walk the cache before it notifies)
NotifiesUncached ==
    /\ op' = "PhotoDelete"
    /\ notified' = 1
    /\ target' \notin DOMAIN idToElement
    /\ \A h \in held : h.id = target' => h.listed /\ h.reg

\* C31: a deletion notification for an element that is not in the cache changes
\* nothing: the cache stays as it is and the notification is not forwarded to
\* the container, whose photo count is not decremented.
C31_UncachedDeletionChangesNothing ==
    [][NotifiesUncached => (Cache' = Cache /\ photoCount' = photoCount)]_vars

\* a step in which AddPhoto succeeds on a playlist for content the cache
\* already holds, the count being the number of cached photos before
SecondUploadToPlaylist ==
    /\ op' = "AddPhoto"
    /\ ~err'
    /\ containerType = "playlist"
    /\ target' \in DOMAIN idToElement
    /\ photoCount = Len(elements)

\* C32: when identical content is uploaded twice into the same playlist, the
\* cache insert of the second AddPhoto is a no-op and the container's photo
\* count stays equal to the number of photos the cache holds.
C32_SecondUploadKeepsCountAndCache ==
    [][SecondUploadToPlaylist => (Cache' = Cache /\ photoCount' = Len(elements'))]_vars

\* what PhotoCount() answers after the step, and the photos the cache holds
\* once that call has loaded it, when no page request fails
CountAfter == containerPhotoCount(Cache', photoCount', pages', NoFail)

\* C33: while the photo count of a container is unknown (-1), a successful
\* AddPhoto or photo Delete does not turn the sentinel into a wrong known value:
\* a PhotoCount() after it answers the number of photos in the cache.
C33_UnknownCountStaysRight ==
    [][(photoCount = photoCountUnknown /\ op' \in {"AddPhoto", "PhotoDelete"} /\ ~err')
          => CountAfter.count = Len(CountAfter.c.elements)]_vars

\* C34: between operations (the cache mutex is free) the element list and the
\* ID index have the same membership: every listed element is the value stored
\* under its ID, every key of the ID index has exactly one listed element, and
\* the list holds no two elements with the same ID.
C34_IDIndexMatchesList ==
    /\ \A i \in 1..Len(elements) :
           /\ elements[i].id \in DOMAIN idToElement
           /\ idToElement[elements[i].id] = elements[i]
    /\ \A k \in DOMAIN idToElement :
           Cardinality({i \in 1..Len(elements) : elements[i].id = k}) = 1
    /\ NoDuplicateIDs(elements)

\* a Remove has taken an element out of the middle of a list that holds
\* uploaded and listed elements: the last element was moved into its place
C34_Witness ==
    /\ op = "Remove"
    /\ ~err
    /\ Len(elements) >= 2
    /\ elements[1].id > elements[2].id
    /\ \E i, j \in 1..Len(elements) : elements[i].listed /\ ~elements[j].listed

\* the name index of cache c is nil or lists under every name exactly the
\* cached elements of that name, each once
NameIndexValid(c) ==
    \/ c.nameToElements.nil
    \/ \A n \in (DOMAIN c.nameToElements.m) \cup {Name(e) : e \in Range(c.elements)} :
           /\ n \in DOMAIN c.nameToElements.m
           /\ ListsExactlyOnce(c.nameToElements.m[n], {e \in Range(c.elements) : Name(e) = n})

\* the unique-name index of cache c is nil or holds every cached element, and
\* nothing else, under its name or its generated unique name
UniqueIndexValid(c) ==
    \/ c.uniqueNameToElement.nil
    \/ /\ \A u \in DOMAIN c.uniqueNameToElement.m :
              /\ c.uniqueNameToElement.m[u] \in Range(c.elements)
              /\ u \in {Name(c.uniqueNameToElement.m[u]), GenerateUniqueName(c.uniqueNameToElement.m[u])}
       /\ \A e \in Range(c.elements) : \E u \in DOMAIN c.uniqueNameToElement.m :
              c.uniqueNameToElement.m[u] = e

\* a step in which a name lookup returns an error after its page walk has
\* succeeded: a call of Name or GenerateUniqueName failed, or two elements
\* were given the same unique name, while an index was built
FailedIndexBuild ==
    /\ op' \in {"ElementsWithName", "ElementWithUniqueName"}
    /\ err'
    /\ foundAll'

\* C35: when reading a Name or generating a unique name fails while a derived
\* index is built, the lookup returns the error and leaves the name index and
\* the unique-name index each either nil or fully valid.
C35_FailedBuildLeavesNoPartialIndex ==
    [][FailedIndexBuild => (NameIndexValid(Cache') /\ UniqueIndexValid(Cache'))]_vars

\* goroutine t is about to read or write c.elementDeletedListener
AtListenerList(t) == threads[t].pc \in {"range", "append"}

\* C36: the list of deletion listeners of a cache is read and written under
\* the cache mutex only, so that AddDeletedListener and ElementDeleted on one
\* cache cannot race: no goroutine is about to write the list without holding
\* the mutex while another is about to read or write it.
C36_ListenersNeverRaced ==
    \A t, u \in Threads :
        (t # u /\ threads[t].pc = "append" /\ AtListenerList(u)) => cacheMu = t

\* C37: every public cache operation releases the cache mutex on every exit
\* path, error paths included: the mutex is held only by a goroutine that is
\* inside a locked method, so once an operation has returned another one can
\* take the mutex.
C37_MutexHeldOnlyInsideMethod ==
    \A t \in Threads : threads[t].pc # "defer" => cacheMu # t

\* an ElementWithUniqueName whose walk and name index succeeded has returned
\* the error of the unique-name index, and the mutex is free
C37_Witness ==
    /\ op = "ElementWithUniqueName"
    /\ err
    /\ foundAll
    /\ ~nameToElements.nil
    /\ \A t \in Threads : threads[t].pc # "defer"
    /\ cacheMu = NoThread

====
